---- MODULE Spec2Model ----
(***************************************************************************)
(* ST-ImageGen: the generation coordinator (generation.js, ui.js), the     *)
(* outbound API calls (api section of presets.js) and the lorebook         *)
(* selector (lorebook section of ui.js), as a state machine.               *)
(*                                                                         *)
(* The browser runs one task at a time.  An action of this module is one   *)
(* task together with the promise continuations it makes runnable: a       *)
(* handler runs from the event that wakes it to the next point where it    *)
(* waits for the network, the host or the user.                            *)
(***************************************************************************)
EXTENDS Integers, Sequences, FiniteSets, TLC

\* ---------------------------------------------------------------- bounds
\* number of invocations that get past the entry checks in one behaviour
MaxSessions == 2
\* number of MESSAGE_RECEIVED events in one behaviour
MaxReceived == 1
\* tokens in a roleplay message, prompts in a preset, messages handed to
\* applyPostProcessing and the times it is applied to them
MaxMessageLen == 2
MaxPrompts == 2
MaxMessages == 3
MaxApplications == 3
\* pieces (a tag, a word, a blank line) in a message that is cleaned
MaxPieces == 4
\* entries in the order of a preset file's bucket
MaxOrder == 3

\* number of entries in the lorebook pool
MaxPool == 2
\* largest maxEntries and maxTokens configured for a scan
MaxBudgetEntries == 2
MaxBudgetTokens == 3

Sessions == 1..MaxSessions

\* ----------------------------------------------------------------- state
VARIABLES
    settings,        \* extension_settings[MODULE_NAME], the fields the workflow reads
    isGenerating,    \* settings.js: the generating flag
    abortController, \* settings.js: the shared abort handle; 0 is null, s is the
                     \* controller session s created for its fetch in flight
    loadingVisible,  \* #st_imagegen_loading is displayed (it holds the cancel button)
    sess,            \* the invocations that passed the entry checks, by number
    chat,            \* the host's chat array (index 0 is position 1 here)
    timers,          \* setTimeout callbacks not yet run
    received,        \* MESSAGE_RECEIVED events so far
    previewOwner,    \* the session whose handlers are on the preview popup's buttons
    editOwner,       \* the session whose handlers are on the edit popup's buttons
    toasts,          \* the toastr messages of the last task, in order
    ended,           \* the invocations that returned in the last task, and how
    pool,            \* what getSortedEntries() resolves to
    lorebook,        \* settings.lorebook, the fields the scan reads
    triggered,       \* what getTriggeredLorebookEntries returned, once it has
    scan,            \* what a scan matches against: the text of the recent messages
                     \* and the host's world_info_case_sensitive / _match_whole_words
    call,            \* a call of one of the pure functions: its name and arguments
    ret              \* what that call returned or threw, once it has

vars == <<settings, isGenerating, abortController, loadingVisible, sess, chat,
          timers, received, previewOwner, editOwner, toasts, ended,
          pool, lorebook, triggered, scan, call, ret>>

\* ------------------------------------------------------------ vocabulary
Undefined == -1   \* messageIndex not given / getCharacterMessage's null

\* no pure function under call
NoCall == [fn |-> "none"]

NoSession ==
    [pc |-> "none", kind |-> "interactive", idx |-> Undefined, prompt |-> "",
     image |-> "", parent |-> 0, cancelled |-> FALSE, errors |-> 0,
     systemPrompt |-> <<>>]

\* a session between setIsGenerating(true) and the end of its finally block;
\* a session that only awaits its own recursive regenerate call is not counted
Running(s) == sess[s].pc \notin {"none", "done", "awaitInner"}

PopupPcs == {"manualPopup", "editPopup", "previewPopup"}

\* the mutable globals a handler works on, as one record
Cur ==
    [isGenerating |-> isGenerating, abortController |-> abortController,
     loadingVisible |-> loadingVisible, sess |-> sess, chat |-> chat,
     previewOwner |-> previewOwner, editOwner |-> editOwner,
     toasts |-> <<>>, ended |-> {}, res |-> "none"]

Commit(g) ==
    /\ isGenerating' = g.isGenerating
    /\ abortController' = g.abortController
    /\ loadingVisible' = g.loadingVisible
    /\ sess' = g.sess
    /\ chat' = g.chat
    /\ previewOwner' = g.previewOwner
    /\ editOwner' = g.editOwner
    /\ toasts' = g.toasts
    /\ ended' = g.ended

\* ------------------------------------------------------------- ui.js
showLoading(g) == [g EXCEPT !.loadingVisible = TRUE]

hideLoading(g) == [g EXCEPT !.loadingVisible = FALSE]

toastr(g, t) == [g EXCEPT !.toasts = Append(@, t)]

\* ------------------------------------------------------------- settings.js
setIsGenerating(g, v) == [g EXCEPT !.isGenerating = v]

setAbortController(g, c) == [g EXCEPT !.abortController = c]

\* ------------------------------------------------------------- character.js
IsUser(m) == m = "user"

IsSystem(m) == m = "image"

RECURSIVE LastCharacter(_, _)
LastCharacter(c, i) ==
    IF i < 0 THEN Undefined
    ELSE IF ~IsUser(c[i + 1]) /\ ~IsSystem(c[i + 1]) THEN i
    ELSE LastCharacter(c, i - 1)

\* the index of the message found, or Undefined for null
getCharacterMessage(c, messageIndex) ==
    IF Len(c) = 0 THEN Undefined
    ELSE IF messageIndex # Undefined
         THEN IF messageIndex >= 0 /\ messageIndex < Len(c) /\ ~IsUser(c[messageIndex + 1])
              THEN messageIndex
              ELSE Undefined
         ELSE LastCharacter(c, Len(c) - 1)

\* ------------------------------------------------------------- strings
\* a string is the sequence of its characters
WordChars == {"a", "b", "A", "B"}

toLowerCaseChar(c) == IF c = "A" THEN "a" ELSE IF c = "B" THEN "b" ELSE c

\* String.prototype.toLowerCase
toLowerCase(str) == [i \in 1..Len(str) |-> toLowerCaseChar(str[i])]

\* String.prototype.includes
includes(str, sub) ==
    \E i \in 1..(Len(str) - Len(sub) + 1) : SubSeq(str, i, i + Len(sub) - 1) = sub

\* \b between the characters i and i + 1 of str (0: the start, Len: the end)
WordBoundary(str, i) ==
    LET before == i >= 1 /\ str[i] \in WordChars
        after  == i < Len(str) /\ str[i + 1] \in WordChars
    IN  before # after

\* new RegExp(`\\b${escaped}\\b`, flag).test(str); fold says the flag is 'i'
testWordBoundary(str, word, fold) ==
    LET s == IF fold THEN toLowerCase(str) ELSE str
        w == IF fold THEN toLowerCase(word) ELSE word
    IN  \E i \in 1..(Len(str) - Len(word) + 1) :
            /\ SubSeq(s, i, i + Len(w) - 1) = w
            /\ WordBoundary(str, i - 1)
            /\ WordBoundary(str, i + Len(w) - 1)

\* ------------------------------------------------------------- lorebook (ui.js)
\* a keyword is a record: regex says it has the form /source/flags, text is the
\* keyword itself or the source (a literal pattern), i that the flags hold 'i',
\* valid that new RegExp accepts it
matchKeyword(keyword, text, caseSensitive, matchWholeWords) ==
    IF (~keyword.regex /\ keyword.text = <<>>) \/ text = <<>> THEN FALSE
    ELSE IF keyword.regex
         THEN IF ~keyword.valid THEN FALSE
              ELSE IF keyword.i \/ ~caseSensitive
                   THEN includes(toLowerCase(text), toLowerCase(keyword.text))
                   ELSE includes(text, keyword.text)
         ELSE LET searchText    == IF caseSensitive THEN text ELSE toLowerCase(text)
                  searchKeyword == IF caseSensitive THEN keyword.text
                                   ELSE toLowerCase(keyword.text)
              IN  IF matchWholeWords
                  THEN testWordBoundary(text, searchKeyword, ~caseSensitive)
                  ELSE includes(searchText, searchKeyword)

\* a switch that reads every logic as AND_ANY
SecondaryLogicAlwaysAny(logic, secondaryMatches) ==
    \E i \in 1..Len(secondaryMatches) : secondaryMatches[i]

\* the switch on entry.selectiveLogic: 0 AND_ANY, 1 NOT_ALL, 2 NOT_ANY, 3 AND_ALL
SecondaryLogicHolds(logic, secondaryMatches) ==
    LET some  == \E i \in 1..Len(secondaryMatches) : secondaryMatches[i]
        every == \A i \in 1..Len(secondaryMatches) : secondaryMatches[i]
    IN  CASE logic = 0 -> some
          [] logic = 1 -> ~every
          [] logic = 2 -> ~some
          [] logic = 3 -> every
          [] OTHER -> TRUE

\* entry.caseSensitive and entry.matchWholeWords are "null", "true" or "false"
entryMatchesText(entry, text, caseSensitive, matchWholeWords, includeConstant) ==
    LET useCaseSensitive == IF entry.caseSensitive # "null"
                            THEN entry.caseSensitive = "true" ELSE caseSensitive
        useWholeWords    == IF entry.matchWholeWords # "null"
                            THEN entry.matchWholeWords = "true" ELSE matchWholeWords
        keys             == entry.key
        primaryMatch     == \E i \in 1..Len(keys) :
                                matchKeyword(keys[i], text, useCaseSensitive, useWholeWords)
        secondaryMatches == [i \in 1..Len(entry.keysecondary) |->
                                matchKeyword(entry.keysecondary[i], text,
                                             useCaseSensitive, useWholeWords)]
    IN  IF entry.disable THEN FALSE
        ELSE IF entry.constant THEN includeConstant
        ELSE IF Len(keys) = 0 THEN FALSE
        ELSE IF ~primaryMatch THEN FALSE
        ELSE IF entry.selective /\ Len(entry.keysecondary) > 0
             THEN SecondaryLogicHolds(entry.selectiveLogic, secondaryMatches)
             ELSE TRUE

\* defaultSettings.lorebook.maxEntries and .maxTokens, used when the setting is falsy
DefaultMaxEntries == 10
DefaultMaxTokens == 500

\* v || d for a number v
OrDefault(v, d) == IF v = 0 THEN d ELSE v

\* entry.content && entry.content.trim()
HasContent(e) == e.content.len > 0 /\ ~e.content.blank

\* Math.ceil((entry.content || '').length / 4)
EntryTokens(e) == (e.content.len + 3) \div 4

NoEntries == [entries |-> <<>>, totalTokens |-> 0]

\* a push that puts the new entry in front
PushFront(acc, e, isConstant) ==
    [entries |-> <<[uid |-> e.uid, content |-> e.content,
                    isConstant |-> isConstant]>> \o acc.entries,
     totalTokens |-> acc.totalTokens + EntryTokens(e)]

\* triggeredEntries.push({...}); totalTokens += entryTokens
Push(acc, e, isConstant) ==
    [entries |-> Append(acc.entries, [uid |-> e.uid, content |-> e.content,
                                      isConstant |-> isConstant]),
     totalTokens |-> acc.totalTokens + EntryTokens(e)]

\* a token test that lets every entry in
FitsAlways(acc, e, maxTokens) == TRUE

\* totalTokens + entryTokens <= maxTokens
Fits(acc, e, maxTokens) == acc.totalTokens + EntryTokens(e) <= maxTokens

\* for (const entry of constantEntries), from its i-th entry on
RECURSIVE ConstantLoop(_, _, _, _, _)
ConstantLoop(entries, i, acc, maxEntries, maxTokens) ==
    IF i > Len(entries) THEN acc
    ELSE IF Len(acc.entries) >= maxEntries THEN acc
    ELSE IF acc.totalTokens >= maxTokens THEN acc
    ELSE ConstantLoop(entries, i + 1,
                      IF Fits(acc, entries[i], maxTokens)
                      THEN Push(acc, entries[i], TRUE) ELSE acc,
                      maxEntries, maxTokens)

\* a keyword loop that ends at the first matching entry that does not fit
RECURSIVE KeywordLoopStopsAtMisfit(_, _, _, _, _, _, _)
KeywordLoopStopsAtMisfit(entries, i, acc, maxEntries, maxTokens, sc, rolls) ==
    IF i > Len(entries) THEN acc
    ELSE IF Len(acc.entries) >= maxEntries THEN acc
    ELSE IF acc.totalTokens >= maxTokens THEN acc
    ELSE LET e    == entries[i]
             skip == \/ ~HasContent(e)
                     \/ e.disable
                     \/ e.useProbability /\ ~rolls[e.uid]
             hit  == entryMatchesText(e, sc.text, sc.caseSensitive,
                                      sc.matchWholeWords, FALSE)
         IN  IF ~skip /\ hit /\ ~Fits(acc, e, maxTokens) THEN acc
             ELSE KeywordLoopStopsAtMisfit(entries, i + 1,
                      IF ~skip /\ hit THEN Push(acc, e, FALSE) ELSE acc,
                      maxEntries, maxTokens, sc, rolls)

\* for (const entry of keywordEntries), from its i-th entry on; rolls[uid] says
\* whether Math.random() * 100 came out at most entry.probability
RECURSIVE KeywordLoop(_, _, _, _, _, _, _)
KeywordLoop(entries, i, acc, maxEntries, maxTokens, sc, rolls) ==
    IF i > Len(entries) THEN acc
    ELSE IF Len(acc.entries) >= maxEntries THEN acc
    ELSE IF acc.totalTokens >= maxTokens THEN acc
    ELSE LET e    == entries[i]
             skip == \/ ~HasContent(e)
                     \/ e.disable
                     \/ e.useProbability /\ ~rolls[e.uid]
             hit  == entryMatchesText(e, sc.text, sc.caseSensitive,
                                      sc.matchWholeWords, FALSE)
             acc1 == IF ~skip /\ hit /\ Fits(acc, e, maxTokens)
                     THEN Push(acc, e, FALSE) ELSE acc
         IN  KeywordLoop(entries, i + 1, acc1, maxEntries, maxTokens, sc, rolls)

\* allEntries.filter(e => e.constant && !e.disable && e.content?.trim())
IsConstantEntry(e) == e.constant /\ ~e.disable /\ HasContent(e)

\* allEntries.filter(e => !e.constant)
IsKeywordEntry(e) == ~e.constant

\* a scan that goes on with the pool it has when the host calls raise
getTriggeredLorebookEntriesNoCatch(lb, allEntries, sc, rolls, throws) ==
    IF ~lb.enabled THEN NoEntries
    ELSE LET maxEntries == OrDefault(lb.maxEntries, DefaultMaxEntries)
             maxTokens  == OrDefault(lb.maxTokens, DefaultMaxTokens)
         IN  KeywordLoop(allEntries, 1, NoEntries, maxEntries, maxTokens, sc, rolls)

\* throws: getWorldInfoSettings() or getSortedEntries() raised
getTriggeredLorebookEntries(lb, allEntries, sc, rolls, throws) ==
    IF ~lb.enabled THEN NoEntries
    ELSE IF throws THEN NoEntries
    ELSE IF Len(allEntries) = 0 THEN NoEntries
    ELSE LET maxEntries == OrDefault(lb.maxEntries, DefaultMaxEntries)
             maxTokens  == OrDefault(lb.maxTokens, DefaultMaxTokens)
             constantEntries == SelectSeq(allEntries, IsConstantEntry)
             keywordEntries  == SelectSeq(allEntries, IsKeywordEntry)
             acc == IF lb.includeConstant
                    THEN ConstantLoop(constantEntries, 1, NoEntries, maxEntries, maxTokens)
                    ELSE NoEntries
         IN  KeywordLoop(keywordEntries, 1, acc, maxEntries, maxTokens, sc, rolls)

\* buildLorebookPromptContent: the parts it joins, one per entry, by uid; no part
\* is the empty string
buildLorebookPromptContent(lb, allEntries, sc, rolls, throws) ==
    IF ~lb.enabled THEN <<>>
    ELSE LET result == getTriggeredLorebookEntries(lb, allEntries, sc, rolls, throws)
         IN  [k \in 1..Len(result.entries) |-> result.entries[k].uid]

\* ------------------------------------------------------------- character.js
\* A message is a sequence of atoms: "<", ">", "/", a blank, a line break and
\* words.  Words that follow each other read as one word, so <<"font", "x">>
\* is the text fontx.  No word is spelled by other words, so the atoms of a
\* text are unique and a regular expression acts on atoms as it does on characters.
Words == {"font", "span", "b", "x"}

\* the number of word atoms from position i on: \w+ at its longest
RECURSIVE WordRun(_, _)
WordRun(m, i) == IF i <= Len(m) /\ m[i] \in Words THEN 1 + WordRun(m, i + 1) ELSE 0

\* [^>]*> from position i on: the position of the first ">", 0 if there is none
FirstGt(m, i) ==
    LET js == {j \in i..Len(m) : m[j] = ">"}
    IN  IF js = {} THEN 0 ELSE CHOOSE j \in js : \A k \in js : j <= k

\* <\/name> at position j
ClosingAt(m, j, name) ==
    /\ j + Len(name) + 2 <= Len(m)
    /\ m[j] = "<" /\ m[j + 1] = "/"
    /\ SubSeq(m, j + 2, j + 1 + Len(name)) = name
    /\ m[j + 2 + Len(name)] = ">"

\* [\s\S]*?<\/name> from position i on: where the first closing tag starts, 0 if none
FirstClosing(m, i, name) ==
    LET js == {j \in i..Len(m) : ClosingAt(m, j, name)}
    IN  IF js = {} THEN 0 ELSE CHOOSE j \in js : \A k \in js : j <= k

\* cleaned.replace(/<span[^>]*>([\s\S]*?)<\/span>/gi, '$1'), from position i on
RECURSIVE ReplaceSpans(_, _)
ReplaceSpans(m, i) ==
    IF i > Len(m) THEN <<>>
    ELSE LET gt == IF m[i] = "<" /\ i < Len(m) /\ m[i + 1] = "span"
                   THEN FirstGt(m, i + 2) ELSE 0
             j  == IF gt = 0 THEN 0 ELSE FirstClosing(m, gt + 1, <<"span">>)
         IN  IF j # 0
             THEN SubSeq(m, gt + 1, j - 1) \o ReplaceSpans(m, j + 4)
             ELSE <<m[i]>> \o ReplaceSpans(m, i + 1)

\* cleaned.replace(/<(?!font\b)(\w+)[^>]*>[\s\S]*?<\/\1>/gi, ''), from position
\* i on: \1 is the longest start of the word after "<" that has a closing tag
RECURSIVE RemoveElements(_, _)
RemoveElements(m, i) ==
    IF i > Len(m) THEN <<>>
    ELSE LET n    == IF m[i] = "<" THEN WordRun(m, i + 1) ELSE 0
             font == n = 1 /\ m[i + 1] = "font"
             gt   == IF n = 0 \/ font THEN 0 ELSE FirstGt(m, i + 1 + n)
             ks   == IF gt = 0 THEN {}
                     ELSE {k \in 1..n : FirstClosing(m, gt + 1, SubSeq(m, i + 1, i + k)) # 0}
         IN  IF ks # {}
             THEN LET k == CHOOSE x \in ks : \A y \in ks : y <= x
                      j == FirstClosing(m, gt + 1, SubSeq(m, i + 1, i + k))
                  IN  RemoveElements(m, j + k + 3)
             ELSE <<m[i]>> \o RemoveElements(m, i + 1)

\* while (prev !== cleaned) { prev = cleaned; cleaned = cleaned.replace(...) }
RECURSIVE SpansLoop(_)
SpansLoop(m) == LET n == ReplaceSpans(m, 1) IN IF n = m THEN m ELSE SpansLoop(n)

RECURSIVE ElementsLoop(_)
ElementsLoop(m) == LET n == RemoveElements(m, 1) IN IF n = m THEN m ELSE ElementsLoop(n)

\* (?!\/?font\b) at position i: the word font, after a "/" or not, ends there
FontAhead(m, i) ==
    LET p == IF m[i] = "/" THEN i + 1 ELSE i
    IN  p <= Len(m) /\ m[p] = "font" /\ (p = Len(m) \/ m[p + 1] \notin Words)

\* cleaned.replace(/<(?!\/?font\b)[^>]+>/gi, ''), from position i on, in one pass
RECURSIVE RemoveOrphans(_, _)
RemoveOrphans(m, i) ==
    IF i > Len(m) THEN <<>>
    ELSE LET gt == IF m[i] = "<" /\ i < Len(m) /\ m[i + 1] # ">" /\ ~FontAhead(m, i + 1)
                   THEN FirstGt(m, i + 1) ELSE 0
         IN  IF gt # 0 THEN RemoveOrphans(m, gt + 1)
             ELSE <<m[i]>> \o RemoveOrphans(m, i + 1)

\* the number of line breaks from position i on
RECURSIVE NewlineRun(_, _)
NewlineRun(m, i) == IF i <= Len(m) /\ m[i] = "\n" THEN 1 + NewlineRun(m, i + 1) ELSE 0

\* cleaned.replace(/\n{4,}/g, '\n\n\n'), from position i on
RECURSIVE CollapseNewlines(_, _)
CollapseNewlines(m, i) ==
    IF i > Len(m) THEN <<>>
    ELSE LET n == NewlineRun(m, i)
         IN  IF n >= 4 THEN <<"\n", "\n", "\n">> \o CollapseNewlines(m, i + n)
             ELSE <<m[i]>> \o CollapseNewlines(m, i + 1)

\* the tokens that are white space: a blank, a line break, a blank line
WhiteSpace == {" ", "\n", "\n\n"}

\* String.prototype.trim on tokens: the white space at both ends goes
RECURSIVE trim(_)
trim(m) ==
    IF m = <<>> THEN m
    ELSE IF Head(m) \in WhiteSpace THEN trim(Tail(m))
    ELSE IF m[Len(m)] \in WhiteSpace THEN trim(SubSeq(m, 1, Len(m) - 1))
    ELSE m

cleanMessageContent(message) ==
    IF message = <<>> THEN message
    ELSE trim(CollapseNewlines(RemoveOrphans(ElementsLoop(SpansLoop(message)), 1), 1))

\* ------------------------------------------------------------- presets.js
\* a getUploadedPresetPrompts without the try: a raise of substituteParams ends the map
getUploadedPresetPromptsNoCatch(uploadedPreset, throws) ==
    IF ~uploadedPreset.stored \/ ~uploadedPreset.hasPrompts THEN <<>>
    ELSE IF \E i \in 1..Len(uploadedPreset.prompts) : throws[i] THEN <<>>
    ELSE [i \in 1..Len(uploadedPreset.prompts) |->
             [role |-> uploadedPreset.prompts[i].role,
              content |-> <<"substituted">> \o uploadedPreset.prompts[i].content]]

\* getUploadedPresetPrompts: throws[i] says substituteParams raised for prompt i
getUploadedPresetPrompts(uploadedPreset, throws) ==
    IF ~uploadedPreset.stored \/ ~uploadedPreset.hasPrompts THEN <<>>
    ELSE [i \in 1..Len(uploadedPreset.prompts) |->
             [role |-> uploadedPreset.prompts[i].role,
              content |-> IF throws[i] THEN uploadedPreset.prompts[i].content
                          ELSE <<"substituted">> \o uploadedPreset.prompts[i].content]]

ToUser(msg) == [role |-> "user", content |-> msg.content]

\* a strict mode that turns the first system message into a user message and
\* keeps the later ones
StrictDemotesFirst(messages, i) ==
    IF messages[i].role = "system" /\ \A j \in 1..(i - 1) : messages[j].role # "system"
    THEN ToUser(messages[i])
    ELSE messages[i]

\* a strict mode that keeps every system message
StrictKeepsAll(messages, i) == messages[i]

\* the callback of messages.map in strict mode, at message i: foundFirstSystem
\* is true once an earlier message had the role system
Strict(messages, i) ==
    LET foundFirstSystem == \E j \in 1..(i - 1) : messages[j].role = "system"
    IN  IF messages[i].role = "system" /\ foundFirstSystem THEN ToUser(messages[i])
        ELSE messages[i]

applyPostProcessing(messages, mode) ==
    IF Len(messages) = 0 \/ mode = "none" THEN messages
    ELSE IF mode = "semi-strict"
         THEN [i \in 1..Len(messages) |->
                  IF messages[i].role = "system" THEN ToUser(messages[i]) ELSE messages[i]]
    ELSE IF mode = "strict"
         THEN [i \in 1..Len(messages) |-> Strict(messages, i)]
    ELSE messages

\* the system prompt of transformMessageToImagePrompt, by its sections
SystemPrompt(c) ==
    <<"instructions">>
    \o (IF c.includeCharacterCard /\ c.characterData THEN <<"character">> ELSE <<>>)
    \o (IF c.includeUserPersona /\ c.personaData THEN <<"persona">> ELSE <<>>)
    \o (IF c.lorebookContent # <<>> THEN <<"lorebook">> ELSE <<>>)

Instruction == "Transform this roleplay message into an image generation prompt:"

\* userMessageContent: the parts of the multimodal message, or the plain text
UserMessageContent(cleanedMessage, charAvatarData) ==
    IF charAvatarData
    THEN <<"[Reference image]", "image_url", Instruction>> \o cleanedMessage
    ELSE <<Instruction>> \o cleanedMessage

\* a prefill that is pushed whenever usePrefill is on
PrefillAlways(textLlm) ==
    IF textLlm.usePrefill
    THEN <<[role |-> "assistant", content |-> textLlm.prefillContent]>> ELSE <<>>

\* if (settings.textLlm.usePrefill && settings.textLlm.prefillContent)
Prefill(textLlm) ==
    IF textLlm.usePrefill /\ textLlm.prefillContent # <<>>
    THEN <<[role |-> "assistant", content |-> textLlm.prefillContent]>> ELSE <<>>

\* the messages array of transformMessageToImagePrompt before post-processing;
\* c holds the settings and the message, the other arguments what the host
\* returned during the call
BuildMessages(c, throws, charAvatarData) ==
    LET cleanedMessage == cleanMessageContent(c.message)
        presetPrompts  == IF c.textLlm.usePreset /\ c.textLlm.uploadedPreset.stored
                          THEN getUploadedPresetPrompts(c.textLlm.uploadedPreset, throws)
                          ELSE <<>>
    IN  presetPrompts
        \o <<[role |-> "system", content |-> SystemPrompt(c)]>>
        \o <<[role |-> "user",
               content |-> UserMessageContent(cleanedMessage,
                                              c.includeCharacterImage /\ charAvatarData)]>>
        \o Prefill(c.textLlm)

\* ------ the response of the text-generation endpoint
\* a JSON value as the extraction reads it: absent (undefined or null), a string
\* (a sequence of tokens) or something else (an array, an object)
Absent == [kind |-> "absent", text |-> <<>>]

Str(s) == [kind |-> "string", text |-> s]

Other == [kind |-> "other", text |-> <<>>]

Truthy(v) == v.kind = "other" \/ (v.kind = "string" /\ v.text # <<>>)

\* textParts.join(sep)
RECURSIVE Join(_, _)
Join(parts, sep) ==
    IF parts = <<>> THEN <<>>
    ELSE IF Len(parts) = 1 THEN parts[1]
    ELSE parts[1] \o <<sep>> \o Join(Tail(parts), sep)

\* part => !part.thought && part.text
IsTextPart(part) == ~part.thought /\ part.text # <<>>

Failure(name) == [ok |-> FALSE, value |-> <<>>, error |-> name]

\* content === null || content === undefined
ContentMissing(content) == content.kind = "absent"

\* transformMessageToImagePrompt from the parsed response on; data is the
\* response, or what its data envelope holds
ExtractPrompt(data) ==
    IF ~data.hasMessage THEN Failure("Invalid response")
    ELSE LET message   == data.message
             content0  == message.content
             missing   == ContentMissing(content0)
             content1  == IF missing /\ message.reasoning_content.kind = "string"
                             /\ Truthy(message.reasoning_content)
                          THEN message.reasoning_content ELSE content0
             textParts == SelectSeq(data.responseContent.parts, IsTextPart)
             content2  == IF missing /\ ~Truthy(content1) /\ data.responseContent.present
                             /\ Len(textParts) > 0
                          THEN Str(Join([i \in 1..Len(textParts) |-> textParts[i].text],
                                        "\n\n"))
                          ELSE content1
             content3  == IF missing /\ ~Truthy(content2) /\ Truthy(message.text)
                          THEN message.text ELSE content2
         IN  IF missing /\ content3.kind = "absent"
             THEN IF Truthy(message.refusal) THEN Failure("refused")
                  ELSE Failure("empty content")
             ELSE IF content3.kind # "string" THEN Failure("TypeError")
             ELSE [ok |-> TRUE, value |-> trim(content3.text), error |-> ""]

\* ------ the response of the image-generation endpoint
\* strings are sequences of tokens: a scheme, the rest of a URL, the head of a
\* data URL, a run of base64 characters (blob100: a hundred or more), a word
Schemes == {"http://", "https://"}

PngPrefix == "data:image/png;base64,"

Base64Runs == {"QUJD", "blob100", "see", "x", "hi"}

ImageNames == {"x.png"}

Found(tokens) == [ok |-> TRUE, value |-> Str(tokens), error |-> ""]

StartsWith(str, heads) == str # <<>> /\ Head(str) \in heads

\* the body as one string: a line is an optional prefix and a payload, which is
\* a JSON object, the broken start of one, other text or nothing
PayloadText(payload) ==
    CASE payload.kind = "json" -> <<"{json}">>
      [] payload.kind = "brokenJson" -> <<"{">>
      [] payload.kind = "text" -> payload.text
      [] OTHER -> <<>>

LineText(line) == (IF line.prefix = "" THEN <<>> ELSE <<line.prefix>>) \o PayloadText(line.payload)

ResponseText(lines) == Join([i \in 1..Len(lines) |-> LineText(lines[i])], "\n")

\* line.startsWith('data: ') && line.includes('{')
IsDataLine(line) == line.prefix = "data: " /\ line.payload.kind \in {"json", "brokenJson"}

\* an extraction without the break: the last such line is taken
LastDataLine(lines) ==
    LET is == {i \in 1..Len(lines) : IsDataLine(lines[i])}
    IN  IF is = {} THEN 0 ELSE CHOOSE i \in is : \A k \in is : k <= i

\* for (const line of lines) { if (...) { jsonText = line.substring(6); break; } }
FirstDataLine(lines) ==
    LET is == {i \in 1..Len(lines) : IsDataLine(lines[i])}
    IN  IF is = {} THEN 0 ELSE CHOOSE i \in is : \A k \in is : i <= k

\* responseText.includes('data: {') || responseText.includes(': keepalive')
LooksLikeSse(lines) ==
    \E i \in 1..Len(lines) : IsDataLine(lines[i]) \/ lines[i].prefix = ": keepalive"

\* JSON.parse of the whole body: it parses if it is one JSON object between
\* white space
ParseBody(lines) ==
    LET filled == {i \in 1..Len(lines) : LineText(lines[i]) # <<>>}
    IN  IF Cardinality(filled) = 1
           /\ \A i \in filled : lines[i].prefix = "" /\ lines[i].payload.kind = "json"
        THEN [ok |-> TRUE, line |-> CHOOSE i \in filled : TRUE]
        ELSE [ok |-> FALSE, line |-> 0]

\* /^[A-Za-z0-9+/=]+$/.test(responseText.trim().substring(0, 100))
LooksLikeBase64(str) ==
    str # <<>> /\ (Head(str) = "blob100" \/ \A i \in 1..Len(str) : str[i] \in Base64Runs)

\* the catch block of JSON.parse: the body as a URL, a data URL or base64
RawBody(responseText) ==
    IF StartsWith(responseText, Schemes) THEN Found(trim(responseText))
    ELSE IF StartsWith(responseText, {PngPrefix}) THEN Found(trim(responseText))
    ELSE IF LooksLikeBase64(trim(responseText))
         THEN Found(<<PngPrefix>> \o trim(responseText))
    ELSE Failure("Invalid response format")

NotFound == Failure("not found")

\* content.match(/!\[.*?\]\((https?:\/\/[^\s)]+)\)/): where the link starts, or 0
MarkdownMatch(content) ==
    LET is == {i \in 1..(Len(content) - 3) :
                  /\ content[i] = "![]("
                  /\ content[i + 1] \in Schemes
                  /\ content[i + 2] \notin WhiteSpace \cup {")"}
                  /\ content[i + 3] = ")"}
    IN  IF is = {} THEN 0 ELSE CHOOSE i \in is : \A k \in is : i <= k

\* content.match(/(https?:\/\/[^\s"'<>]+\.(png|jpg|jpeg|gif|webp)[^\s"'<>]*)/i)
UrlMatch(content) ==
    LET is == {i \in 1..(Len(content) - 1) :
                  content[i] \in Schemes /\ content[i + 1] \in ImageNames}
    IN  IF is = {} THEN 0 ELSE CHOOSE i \in is : \A k \in is : i <= k

\* the chat-completions shape: choices[0].message.content or .delta.content
ProbeChoice(data) ==
    LET content == IF Truthy(data.content) THEN data.content ELSE data.delta
        c       == content.text
    IN  IF ~Truthy(content) THEN NotFound
        ELSE IF content.kind # "string" THEN Failure("TypeError")
        ELSE IF StartsWith(c, Schemes) THEN Found(trim(c))
        ELSE IF StartsWith(c, {PngPrefix}) THEN Found(trim(c))
        ELSE IF MarkdownMatch(c) # 0
             THEN Found(SubSeq(c, MarkdownMatch(c) + 1, MarkdownMatch(c) + 2))
        ELSE IF UrlMatch(c) # 0 THEN Found(SubSeq(c, UrlMatch(c), UrlMatch(c) + 1))
        ELSE IF trim(c) # <<>> /\ \A i \in 1..Len(trim(c)) : trim(c)[i] = "blob100"
             THEN Found(<<PngPrefix>> \o trim(c))
        ELSE NotFound

Returned(v) == [ok |-> TRUE, value |-> v, error |-> ""]

\* the OpenAI shape: data[0].url, data[0].b64_json
ProbeArray(data) ==
    IF ~data.data0.present THEN NotFound
    ELSE IF Truthy(data.data0.url) THEN Returned(data.data0.url)
    ELSE IF Truthy(data.data0.b64_json) THEN Found(<<PngPrefix>> \o data.data0.b64_json.text)
    ELSE NotFound

\* data.url, data.image_url, data.output
ProbeUrl(data) ==
    IF Truthy(data.url) THEN Returned(data.url)
    ELSE IF Truthy(data.image_url) THEN Returned(data.image_url)
    ELSE IF Truthy(data.output) THEN Returned(data.output)
    ELSE NotFound

\* data.b64_json, data.image, data.base64
ProbeBase64(data) ==
    IF Truthy(data.b64_json) THEN Found(<<PngPrefix>> \o data.b64_json.text)
    ELSE IF Truthy(data.image)
         THEN IF StartsWith(data.image.text, {PngPrefix, "data:text/plain,"})
              THEN Returned(data.image)
              ELSE Found(<<PngPrefix>> \o data.image.text)
    ELSE IF Truthy(data.base64) THEN Found(<<PngPrefix>> \o data.base64.text)
    ELSE NotFound

\* probes in the opposite order
LastProbe(probes) ==
    LET hits == {k \in 1..Len(probes) : probes[k] # NotFound}
    IN  IF hits = {} THEN NotFound ELSE probes[CHOOSE k \in hits : \A j \in hits : j <= k]

\* the probes in the order of the code: the first that returns or throws ends
\* the function
FirstProbe(probes) ==
    LET hits == {k \in 1..Len(probes) : probes[k] # NotFound}
    IN  IF hits = {} THEN NotFound ELSE probes[CHOOSE k \in hits : \A j \in hits : k <= j]

\* generateImage from the parsed JSON on
ProbeJson(data) ==
    FirstProbe(<<ProbeChoice(data), ProbeArray(data), ProbeUrl(data), ProbeBase64(data)>>)

\* generateImage from the response text on
NormalizeImageResponse(lines) ==
    LET line   == IF LooksLikeSse(lines) THEN FirstDataLine(lines) ELSE 0
        parsed == IF line # 0
                  THEN [ok |-> lines[line].payload.kind = "json", line |-> line]
                  ELSE ParseBody(lines)
    IN  IF parsed.ok THEN ProbeJson(lines[parsed.line].payload.json)
        ELSE RawBody(ResponseText(lines))

\* ------------------------------------------------------------- presets.js: upload
\* the content of a prompt is a sequence of tokens: a comment, a macro, a
\* blank or a piece of text
UtilityTokens == {"{{// c}}", "{{trim}}", "{{noop}}"}

ContentMacros == {"{{char}}", "{{user}}"}

MacroTokens == UtilityTokens \cup ContentMacros \cup {"{{random}}"}

NotUtility(tok) == tok \notin UtilityTokens

NotMacro(tok) == tok \notin MacroTokens

hasActualContent(content) ==
    IF content.kind # "string" \/ content.text = <<>> THEN FALSE
    ELSE LET cleaned == trim(SelectSeq(content.text, NotUtility))
             hasTextOutsideMacros == trim(SelectSeq(cleaned, NotMacro)) # <<>>
             hasContentMacros == \E i \in 1..Len(cleaned) : cleaned[i] \in ContentMacros
         IN  cleaned # <<>> /\ (hasTextOutsideMacros \/ hasContentMacros)

\* promptMap.get(identifier): the position in preset.prompts of the prompt the
\* map holds for the identifier, the last one set; 0 for undefined
promptMapGet(prompts, identifier) ==
    LET is == {i \in 1..Len(prompts) : prompts[i].identifier # ""
                                        /\ prompts[i].identifier = identifier}
    IN  IF is = {} THEN 0 ELSE CHOOSE i \in is : \A j \in is : j <= i

\* preset.prompt_order.find(po => po.character_id === 100001): its position, 0
\* for undefined
FindCustomOrder(promptOrder) ==
    LET is == {i \in 1..Len(promptOrder) : promptOrder[i].character_id = 100001}
    IN  IF is = {} THEN 0 ELSE CHOOSE i \in is : \A j \in is : i <= j

\* a loop body that does not look at entry.enabled
PushesPromptIfDisabled(prompts, entry) ==
    LET at == promptMapGet(prompts, entry.identifier)
    IN  /\ entry.identifier # ""
        /\ at # 0
        /\ ~prompts[at].marker
        /\ Truthy(prompts[at].content) /\ prompts[at].role # ""
        /\ hasActualContent(prompts[at].content)

\* the body of the loop over customOrder.order reaches enabledPrompts.push
PushesPrompt(prompts, entry) ==
    LET at == promptMapGet(prompts, entry.identifier)
    IN  /\ entry.enabled /\ entry.identifier # ""
        /\ at # 0
        /\ ~prompts[at].marker
        /\ Truthy(prompts[at].content) /\ prompts[at].role # ""
        /\ hasActualContent(prompts[at].content)

Rejected(message) == [ok |-> FALSE, error |-> message, prompts |-> <<>>]

\* reader.onload of parsePresetFile: the prompts it resolves with, or the error
\* it rejects with
parsePresetFile(file) ==
    IF ~file.json THEN Rejected("Failed to parse preset file")
    ELSE IF file.prompts.kind # "array"
    THEN Rejected("Invalid preset format: missing prompts array")
    ELSE IF file.prompt_order.kind # "array"
    THEN Rejected("Invalid preset format: missing prompt_order array")
    ELSE LET prompts == file.prompts.items
             at == FindCustomOrder(file.prompt_order.items)
         IN  IF at = 0 \/ ~file.prompt_order.items[at].hasOrder
             THEN Rejected("Invalid preset format: missing custom prompt order")
             ELSE LET Pushes(entry) == PushesPrompt(prompts, entry)
                      pushed == SelectSeq(file.prompt_order.items[at].order, Pushes)
                  IN  [ok |-> TRUE, error |-> "",
                       prompts |-> [k \in 1..Len(pushed) |->
                           LET prompt == prompts[promptMapGet(prompts, pushed[k].identifier)]
                           IN  [identifier |-> prompt.identifier, role |-> prompt.role,
                                content |-> prompt.content]]]

\* ------------------------------------------------------------- generation.js
\* a finally block that forgets setIsGenerating(false)
FinallyBlockKeepsFlag(g, s) ==
    LET g1 == IF g.sess[s].kind = "interactive" THEN hideLoading(g) ELSE g
    IN  setAbortController(g1, 0)

\* the finally block of generateImageForMessage / generateImageForMessageFullAuto
FinallyBlock(g, s) ==
    LET g1 == IF g.sess[s].kind = "interactive" THEN hideLoading(g) ELSE g
    IN  setAbortController(setIsGenerating(g1, FALSE), 0)

\* the invocation s returns: its finally block runs, its promise settles, and an
\* outer invocation awaiting it (regenerate) returns through its own finally.
\* ended records how each invocation of this task ended, with its last state.
RECURSIVE Return(_, _, _)
Return(g, s, outcome) ==
    LET g1 == FinallyBlock(g, s)
        g2 == [g1 EXCEPT !.sess[s] = [NoSession EXCEPT !.pc = "done"],
                         !.ended = @ \cup {[s |-> s, kind |-> g.sess[s].kind,
                                              pc |-> g.sess[s].pc,
                                              parent |-> g.sess[s].parent,
                                              outcome |-> outcome,
                                              errors |-> g.sess[s].errors,
                                              cancelled |-> g.sess[s].cancelled]}]
        p  == g.sess[s].parent
    IN  IF p = 0 THEN g2 ELSE Return(g2, p, "regenerated")

\* a catch block without the AbortError test
CatchShowsAbort(g, s, name) ==
    Return(toastr([g EXCEPT !.sess[s].errors = @ + 1], "error"), s,
           IF name = "AbortError" THEN "aborted" ELSE "failed")

\* the catch block: an AbortError returns silently, anything else is shown once
Catch(g, s, name) ==
    IF name = "AbortError"
    THEN Return(g, s, "aborted")
    ELSE Return(toastr([g EXCEPT !.sess[s].errors = @ + 1], "error"), s, "failed")

\* context.chat.splice(afterMessageIndex + 1, 0, imageMessage)
Splice(c, afterMessageIndex) ==
    LET at == IF afterMessageIndex + 1 > Len(c) THEN Len(c) ELSE afterMessageIndex + 1
    IN  SubSeq(c, 1, at) \o <<"image">> \o SubSeq(c, at + 1, Len(c))

\* createImageMessage from the splice on, up to the wait for context.saveChat()
InsertImageMessage(g, s) ==
    [g EXCEPT !.chat = Splice(@, g.sess[s].idx),
              !.sess[s].pc = "saveChat",
              !.sess[s].idx = Undefined,
              !.sess[s].prompt = "",
              !.sess[s].image = ""]

\* createImageMessage up to its first wait: a data: URL is saved to the server first
createImageMessage(g, s) ==
    IF g.sess[s].image = "data"
    THEN [g EXCEPT !.sess[s].pc = "saveFile"]
    ELSE InsertImageMessage(g, s)

\* ------------------------------------------------------------- api (presets.js)
\* the error transformMessageToImagePrompt throws before anything else, "" if none
TextConfigurationError(st) ==
    IF ~st.textUrl THEN "Text LLM API URL is not configured" ELSE ""

\* a generateImage that does not look at the prompt
ImageConfigurationErrorAnyPrompt(st, prompt) ==
    IF ~st.imageUrl THEN "Image Generation API URL is not configured"
    ELSE IF st.model = "custom" /\ ~st.customModelName
         THEN "Custom model name is not configured"
         ELSE ""

\* a generateImage that does not look at the custom model name
ImageConfigurationErrorAnyModel(st, prompt) ==
    IF ~st.imageUrl THEN "Image Generation API URL is not configured"
    ELSE IF prompt = "" THEN "No prompt provided for image generation"
    ELSE ""

\* the error generateImage throws before it builds its request, "" if none
ImageConfigurationError(st, prompt) ==
    IF ~st.imageUrl THEN "Image Generation API URL is not configured"
    ELSE IF prompt = "" THEN "No prompt provided for image generation"
    ELSE IF st.model = "custom" /\ ~st.customModelName
         THEN "Custom model name is not configured"
         ELSE ""

\* one of the two API functions from its call to its first fetch of the
\* endpoint, or to its throw: the error, the abort handle it leaves and the
\* fetches it started (the avatar, the endpoint)
ApiCallOutcome(c) ==
    LET error == IF c.api = "generateImage"
                 THEN ImageConfigurationError(c.settings, c.prompt)
                 ELSE TextConfigurationError(c.settings)
    IN  IF error # ""
        THEN [error |-> error, abortController |-> c.abortController, fetches |-> <<>>]
        ELSE [error |-> "", abortController |-> "new",
              fetches |-> IF c.api = "transformMessageToImagePrompt"
                             /\ c.settings.includeCharacterImage
                          THEN <<"avatar", "endpoint">> ELSE <<"endpoint">>]

\* generateImage up to its fetch: the configuration checks, then the request
generateImage(g, s) ==
    IF ImageConfigurationError(settings, g.sess[s].prompt) # "" THEN Catch(g, s, "Error")
    ELSE [setAbortController(g, s) EXCEPT !.sess[s].pc = "awaitImage"]

\* transformMessageToImagePrompt from the controller on: the text-generation fetch
SendTextRequest(g, s) ==
    [setAbortController(g, s) EXCEPT !.sess[s].pc = "awaitText"]

\* transformMessageToImagePrompt after the lorebook section: the avatar, if wanted
AfterLorebook(g, s) ==
    IF settings.includeCharacterImage
    THEN [g EXCEPT !.sess[s].pc = "avatar"]
    ELSE SendTextRequest(g, s)

\* transformMessageToImagePrompt from the resolved buildLorebookPromptContent on:
\* the lorebook section is added to systemPrompt if the content is not empty
LorebookSection(g, s, lorebookContent) ==
    AfterLorebook(IF lorebookContent # <<>>
                  THEN [g EXCEPT !.sess[s].systemPrompt = Append(@, "lorebook")]
                  ELSE g, s)

\* transformMessageToImagePrompt up to its first wait; systemPrompt holds the
\* sections of the system message, the configured instructions first
transformMessageToImagePrompt(g, s) ==
    IF TextConfigurationError(settings) # "" THEN Catch(g, s, "Error")
    ELSE LET g1 == [g EXCEPT !.sess[s].systemPrompt = <<"instructions">>]
         IN  IF settings.lorebook THEN [g1 EXCEPT !.sess[s].pc = "scan"]
             ELSE AfterLorebook(g1, s)

\* ------------------------------------------------------------- generation.js
\* generateImageForMessage from showLoading('Generating image...') on
ToImage(g, s) == generateImage(showLoading(g), s)

\* generateImageForMessage once it has a prompt: the optional edit popup
AfterPrompt(g, s, prompt) ==
    LET g1 == hideLoading([g EXCEPT !.sess[s].prompt = prompt])
    IN  IF settings.editPromptBeforeSending
        THEN [g1 EXCEPT !.editOwner = s, !.sess[s].pc = "editPopup"]
        ELSE ToImage(g1, s)

\* generateImageForMessage after generateImage resolved: the preview popup
AfterImage(g, s) ==
    [hideLoading(g) EXCEPT !.previewOwner = s, !.sess[s].pc = "previewPopup"]

\* a full-auto path that asks for confirmation like the interactive one
AfterImageFullAutoAsks(g, s) == AfterImage(g, s)

\* generateImageForMessageFullAuto after generateImage resolved: auto-accept
AfterImageFullAuto(g, s) == createImageMessage(g, s)

HasFresh(g) == \E s \in Sessions : g.sess[s].pc = "none"

Fresh(g) == CHOOSE s \in Sessions :
                /\ g.sess[s].pc = "none"
                /\ \A r \in Sessions : g.sess[r].pc = "none" => s <= r

\* the entry check on the generating flag
AlreadyGenerating(g) == g.isGenerating

\* an entry check that never misses the text-generation URL
TextUrlNeverMissing(existingPrompt) == FALSE

\* the entry check on the text-generation URL
TextUrlMissing(existingPrompt) ==
    ~settings.textUrl /\ existingPrompt = "" /\ ~settings.manualPromptMode

\* what generateImageForMessage answers before it sets the flag; "started" if it goes on
EntryCheck(g, existingPrompt) ==
    IF AlreadyGenerating(g) THEN "alreadyRunning"
    ELSE IF ~settings.enabled THEN "disabled"
    ELSE IF TextUrlMissing(existingPrompt) THEN "noTextUrl"
    ELSE IF ~settings.imageUrl THEN "noImageUrl"
    ELSE "started"

\* the try block of generateImageForMessage up to its first wait
TryBlock(g, s, messageIndex, existingPrompt) ==
    LET found == getCharacterMessage(g.chat, messageIndex)
        g1    == [g EXCEPT !.sess[s].idx = found]
    IN  IF found = Undefined
        THEN Return(toastr(g, "noMessage"), s, "noMessage")
        ELSE IF existingPrompt = ""
             THEN IF settings.manualPromptMode
                  THEN [g1 EXCEPT !.sess[s].pc = "manualPopup"]
                  ELSE transformMessageToImagePrompt(showLoading(g1), s)
             ELSE AfterPrompt(g1, s, existingPrompt)

generateImageForMessage(g, messageIndex, existingPrompt, parent) ==
    LET r == EntryCheck(g, existingPrompt)
    IN  IF r # "started"
        THEN [toastr(g, r) EXCEPT !.res = r]
        ELSE LET s  == Fresh(g)
                 g1 == [setIsGenerating(g, TRUE) EXCEPT
                            !.res = r,
                            !.sess[s] = [NoSession EXCEPT !.pc = "try", !.parent = parent]]
             IN  TryBlock(g1, s, messageIndex, existingPrompt)

\* what generateImageForMessageFullAuto answers before it sets the flag
EntryCheckFullAuto(g) ==
    IF AlreadyGenerating(g) THEN "alreadyRunning"
    ELSE IF ~settings.enabled THEN "disabled"
    ELSE IF ~settings.textUrl THEN "noTextUrl"
    ELSE IF ~settings.imageUrl THEN "noImageUrl"
    ELSE "started"

\* the try block of generateImageForMessageFullAuto up to its first wait
TryBlockFullAuto(g, s, messageIndex) ==
    LET found == getCharacterMessage(g.chat, messageIndex)
        g1    == [g EXCEPT !.sess[s].idx = found]
    IN  IF found = Undefined
        THEN Return(g, s, "noMessage")
        ELSE transformMessageToImagePrompt(g1, s)

generateImageForMessageFullAuto(g, messageIndex) ==
    LET r == EntryCheckFullAuto(g)
    IN  IF r # "started"
        THEN [g EXCEPT !.res = r]
        ELSE LET s  == Fresh(g)
                 g1 == [setIsGenerating(g, TRUE) EXCEPT
                            !.res = r,
                            !.sess[s] = [NoSession EXCEPT !.pc = "try", !.kind = "fullAuto"]]
             IN  TryBlockFullAuto(g1, s, messageIndex)

\* ------------------------------------------------------------- the tasks
Rest == <<settings, timers, received, pool, lorebook, triggered, scan, call, ret>>

\* the message button of a character message (messages.js, addMessageButton)
ButtonClick(i) ==
    /\ i \in 0..(Len(chat) - 1)
    /\ ~IsUser(chat[i + 1]) /\ ~IsSystem(chat[i + 1])
    /\ EntryCheck(Cur, "") = "started" => HasFresh(Cur)
    /\ LET g == generateImageForMessage(Cur, i, "", 0)
       IN  Commit(g)
    /\ UNCHANGED Rest

\* /genimage [mesid=m] (messages.js, registerSlashCommand)
SlashCommand(m) ==
    /\ m \in {Undefined} \cup 0..Len(chat)
    /\ EntryCheck(Cur, "") = "started" => HasFresh(Cur)
    /\ LET g == generateImageForMessage(Cur, m, "", 0)
       IN  Commit(g)
    /\ UNCHANGED Rest

\* a handler of MESSAGE_RECEIVED that sets the timer in every mode
AutoTriggerInAnyMode(st, messageIndex) ==
    IF st.enabled /\ st.mode = "fullAuto"
    THEN {[kind |-> "fullAuto", idx |-> messageIndex]}
    ELSE IF st.enabled THEN {[kind |-> "interactive", idx |-> messageIndex]}
    ELSE {}

\* the setTimeout calls of onMessageReceived: the callbacks it schedules
AutoTrigger(st, messageIndex) ==
    IF st.enabled /\ st.mode = "auto"
    THEN {[kind |-> "interactive", idx |-> messageIndex]}
    ELSE IF st.enabled /\ st.mode = "fullAuto"
    THEN {[kind |-> "fullAuto", idx |-> messageIndex]}
    ELSE {}

\* the host appends a character message and emits MESSAGE_RECEIVED: onMessageReceived
onMessageReceived ==
    /\ received < MaxReceived
    /\ received' = received + 1
    /\ chat' = Append(chat, "char")
    /\ timers' = timers \cup AutoTrigger(settings, Len(chat))
    /\ toasts' = <<>>
    /\ ended' = {}
    /\ UNCHANGED <<settings, isGenerating, abortController, loadingVisible, sess,
                   previewOwner, editOwner, pool, lorebook, triggered, scan, call, ret>>

\* the change handler of #st_imagegen_enabled
SetEnabled(checked) ==
    /\ checked \in BOOLEAN /\ checked # settings.enabled
    /\ settings' = [settings EXCEPT !.enabled = checked]
    /\ toasts' = <<>>
    /\ ended' = {}
    /\ UNCHANGED <<isGenerating, abortController, loadingVisible, sess, chat, timers,
                   received, previewOwner, editOwner, pool, lorebook, triggered, scan,
                   call, ret>>

\* the change handler of the radio buttons st_imagegen_mode
SetMode(val) ==
    /\ val \in {"manual", "auto", "fullAuto"} /\ val # settings.mode
    /\ settings' = [settings EXCEPT !.mode = val]
    /\ toasts' = <<>>
    /\ ended' = {}
    /\ UNCHANGED <<isGenerating, abortController, loadingVisible, sess, chat, timers,
                   received, previewOwner, editOwner, pool, lorebook, triggered, scan,
                   call, ret>>

\* the setTimeout callback of onMessageReceived, 500 ms later
TimerFire(t) ==
    /\ t \in timers
    /\ timers' = timers \ {t}
    /\ IF t.kind = "interactive"
       THEN /\ EntryCheck(Cur, "") = "started" => HasFresh(Cur)
            /\ LET g == generateImageForMessage(Cur, t.idx, "", 0)
               IN  Commit(g)
       ELSE /\ EntryCheckFullAuto(Cur) = "started" => HasFresh(Cur)
            /\ LET g == generateImageForMessageFullAuto(Cur, t.idx)
               IN  Commit(g)
    /\ UNCHANGED <<settings, received, pool, lorebook, triggered, scan, call, ret>>

\* the click on #st_imagegen_cancel, which is inside the loading overlay
cancelGeneration ==
    /\ loadingVisible
    /\ LET c   == abortController
           hit == c # 0 /\ sess[c].pc \in {"awaitText", "awaitImage"}
           g0  == [Cur EXCEPT !.sess = [s \in Sessions |->
                       IF sess[s].pc \notin {"none", "done"}
                       THEN [sess[s] EXCEPT !.cancelled = TRUE] ELSE sess[s]]]
           g1  == IF c # 0 THEN setAbortController(g0, 0) ELSE g0
           g2  == toastr(setIsGenerating(hideLoading(g1), FALSE), "cancelled")
           g3  == IF hit THEN Catch(g2, c, "AbortError") ELSE g2
       IN  Commit(g3)
    /\ UNCHANGED Rest

\* buildLorebookPromptContent resolves (lorebook section of ui.js)
LorebookDone(s, rolls, throws) ==
    /\ sess[s].pc = "scan"
    /\ LET lorebookContent == buildLorebookPromptContent(lorebook, pool, scan, rolls, throws)
           g == LorebookSection(Cur, s, lorebookContent)
       IN  Commit(g)
    /\ UNCHANGED Rest

\* getCharacterAvatar resolves (character.js)
AvatarDone(s) ==
    /\ sess[s].pc = "avatar"
    /\ LET g == SendTextRequest(Cur, s)
       IN  Commit(g)
    /\ UNCHANGED Rest

\* the text-generation response arrives: r is the prompt extracted ("" for an
\* empty content), or "error" for an HTTP error, an invalid body or a refusal
TextResponse(s, r) ==
    /\ sess[s].pc = "awaitText"
    /\ r \in {"t", "", "error"}
    /\ LET g0 == [Cur EXCEPT !.sess[s].systemPrompt = <<>>]
           g  == IF r = "error" THEN Catch(g0, s, "Error")
                 ELSE IF sess[s].kind = "fullAuto"
                      THEN generateImage([g0 EXCEPT !.sess[s].prompt = r], s)
                      ELSE AfterPrompt(g0, s, r)
       IN  Commit(g)
    /\ UNCHANGED Rest

\* showManualPromptPopup resolves
ManualPromptResolve(s, accepted, prompt) ==
    /\ sess[s].pc = "manualPopup"
    /\ accepted \in BOOLEAN /\ prompt \in {"", "m"}
    /\ LET g == IF ~accepted \/ prompt = ""
                THEN Return(toastr(Cur, "cancelled"), s, "manualCancelled")
                ELSE AfterPrompt(Cur, s, prompt)
       IN  Commit(g)
    /\ UNCHANGED Rest

\* #st_imagegen_edit_accept: text is the textarea's value, trimmed
EditAccept(s, text) ==
    /\ sess[s].pc = "editPopup" /\ editOwner = s
    /\ text \in {"", "e"}
    /\ LET edited == IF text # "" THEN text ELSE sess[s].prompt
           g == ToImage([Cur EXCEPT !.editOwner = 0, !.sess[s].prompt = edited], s)
       IN  Commit(g)
    /\ UNCHANGED Rest

\* #st_imagegen_edit_discard, or a click outside the edit popup
EditDiscard(s) ==
    /\ sess[s].pc = "editPopup" /\ editOwner = s
    /\ LET g == Return(toastr([Cur EXCEPT !.editOwner = 0], "cancelled"), s, "editDiscarded")
       IN  Commit(g)
    /\ UNCHANGED Rest

\* the image-generation response arrives: r is the kind of reference the
\* normalizer returns, or "error" for an HTTP error or an unrecognized body
ImageResponse(s, r) ==
    /\ sess[s].pc = "awaitImage"
    /\ r \in {"url", "data", "error"}
    /\ LET g1 == [Cur EXCEPT !.sess[s].image = r]
           g  == IF r = "error" THEN Catch(Cur, s, "Error")
                 ELSE IF sess[s].kind = "fullAuto"
                      THEN AfterImageFullAuto(g1, s)
                      ELSE AfterImage(g1, s)
       IN  Commit(g)
    /\ UNCHANGED Rest

\* #st_imagegen_accept
PreviewAccept(s) ==
    /\ sess[s].pc = "previewPopup" /\ previewOwner = s
    /\ LET g == createImageMessage([Cur EXCEPT !.previewOwner = 0], s)
       IN  Commit(g)
    /\ UNCHANGED Rest

\* #st_imagegen_delete, or a click outside the preview popup
PreviewDelete(s) ==
    /\ sess[s].pc = "previewPopup" /\ previewOwner = s
    /\ LET g == Return([Cur EXCEPT !.previewOwner = 0], s, "discarded")
       IN  Commit(g)
    /\ UNCHANGED Rest

\* a regenerate branch that calls generateImageForMessage with the flag still set
PreviewRegenerateKeepsFlag(s) ==
    /\ sess[s].pc = "previewPopup" /\ previewOwner = s
    /\ HasFresh(Cur)
    /\ LET g1 == [Cur EXCEPT !.previewOwner = 0, !.sess[s].pc = "awaitInner"]
           g2 == generateImageForMessage(g1, sess[s].idx, sess[s].prompt, s)
           g  == IF g2.res = "started" THEN g2 ELSE Return(g2, s, "regenerated")
       IN  Commit(g)
    /\ UNCHANGED Rest

\* #st_imagegen_regenerate: the flag is reset and generateImageForMessage calls itself
PreviewRegenerate(s) ==
    /\ sess[s].pc = "previewPopup" /\ previewOwner = s
    /\ HasFresh(Cur)
    /\ LET g1 == setIsGenerating([Cur EXCEPT !.previewOwner = 0,
                                             !.sess[s].pc = "awaitInner"], FALSE)
           g2 == generateImageForMessage(g1, sess[s].idx, sess[s].prompt, s)
           g  == IF g2.res = "started" THEN g2 ELSE Return(g2, s, "regenerated")
       IN  Commit(g)
    /\ UNCHANGED Rest

\* the Escape key: every escHandler on the document runs, each popup closes
RECURSIVE EscapeFrom(_, _)
EscapeFrom(g, s) ==
    IF s > MaxSessions THEN g
    ELSE IF g.sess[s].pc = "editPopup"
         THEN EscapeFrom(Return(toastr(g, "cancelled"), s, "editDiscarded"), s + 1)
         ELSE IF g.sess[s].pc = "previewPopup"
              THEN EscapeFrom(Return(g, s, "discarded"), s + 1)
              ELSE EscapeFrom(g, s + 1)

EscapeKey ==
    /\ \E s \in Sessions : sess[s].pc \in {"editPopup", "previewPopup"}
    /\ LET g == EscapeFrom([Cur EXCEPT !.previewOwner = 0, !.editOwner = 0], 1)
       IN  Commit(g)
    /\ UNCHANGED Rest

\* saveBase64AsFile settles; a failure is caught inside createImageMessage
SaveFileDone(s, ok) ==
    /\ sess[s].pc = "saveFile"
    /\ ok \in BOOLEAN
    /\ LET g == InsertImageMessage(IF ok THEN Cur ELSE toastr(Cur, "saveWarning"), s)
       IN  Commit(g)
    /\ UNCHANGED Rest

\* context.saveChat() resolves: the success toast, then the invocation returns
SaveChatDone(s) ==
    /\ sess[s].pc = "saveChat"
    /\ LET g == Return(toastr(Cur, "success"), s, "success")
       IN  Commit(g)
    /\ UNCHANGED Rest

\* a lorebook scan: getTriggeredLorebookEntries runs to its return
scanLorebook(rolls, throws) ==
    /\ ~triggered.done
    /\ LET r == getTriggeredLorebookEntries(lorebook, pool, scan, rolls, throws)
       IN  triggered' = [done |-> TRUE, entries |-> r.entries,
                         totalTokens |-> r.totalTokens]
    /\ UNCHANGED <<settings, isGenerating, abortController, loadingVisible, sess, chat,
                   timers, received, previewOwner, editOwner, toasts, ended,
                   pool, lorebook, scan, call, ret>>

\* transformMessageToImagePrompt builds its messages array and post-processes it;
\* throws and charAvatarData are what substituteParams and getCharacterAvatar did
BuildRequest(throws, charAvatarData) ==
    /\ call.fn = "transformMessageToImagePrompt" /\ ret = NoCall
    /\ LET messages == BuildMessages(call, throws, charAvatarData)
           postProcessingMode == IF call.textLlm.postProcessing = "" THEN "none"
                                 ELSE call.textLlm.postProcessing
       IN  ret' = [fn |-> call.fn, throws |-> throws, charAvatarData |-> charAvatarData,
                   messages |-> messages,
                   processedMessages |-> applyPostProcessing(messages, postProcessingMode)]
    /\ UNCHANGED <<settings, isGenerating, abortController, loadingVisible, sess, chat,
                   timers, received, previewOwner, editOwner, toasts, ended,
                   pool, lorebook, triggered, scan, call>>

\* the response of the image-generation endpoint is read
ReadImageResponse ==
    /\ call.fn = "normalizeImageResponse" /\ ret = NoCall
    /\ ret' = [fn |-> call.fn, result |-> NormalizeImageResponse(call.lines)]
    /\ UNCHANGED <<settings, isGenerating, abortController, loadingVisible, sess, chat,
                   timers, received, previewOwner, editOwner, toasts, ended,
                   pool, lorebook, triggered, scan, call>>

\* the response of the text-generation endpoint is read
ReadTextResponse ==
    /\ call.fn = "extractPrompt" /\ ret = NoCall
    /\ ret' = [fn |-> call.fn, result |-> ExtractPrompt(call.data)]
    /\ UNCHANGED <<settings, isGenerating, abortController, loadingVisible, sess, chat,
                   timers, received, previewOwner, editOwner, toasts, ended,
                   pool, lorebook, triggered, scan, call>>

\* getUploadedPresetPrompts is called; throws is what substituteParams did
GetPresetPrompts(throws) ==
    /\ call.fn = "getUploadedPresetPrompts" /\ ret = NoCall
    /\ ret' = [fn |-> call.fn, throws |-> throws,
               prompts |-> getUploadedPresetPrompts(call.uploadedPreset, throws)]
    /\ UNCHANGED <<settings, isGenerating, abortController, loadingVisible, sess, chat,
                   timers, received, previewOwner, editOwner, toasts, ended,
                   pool, lorebook, triggered, scan, call>>

\* a preset file is uploaded and read: reader.onload runs
ParsePreset ==
    /\ call.fn = "parsePresetFile" /\ ret = NoCall
    /\ ret' = [fn |-> call.fn, result |-> parsePresetFile(call.file)]
    /\ UNCHANGED <<settings, isGenerating, abortController, loadingVisible, sess, chat,
                   timers, received, previewOwner, editOwner, toasts, ended,
                   pool, lorebook, triggered, scan, call>>

\* cleanMessageContent is applied to the message of the call, then to its own
\* result; ret.applied counts the applications
CleanMessage ==
    /\ call.fn = "cleanMessageContent"
    /\ IF ret.fn = "none" THEN TRUE ELSE ret.applied < MaxApplications
    /\ ret' = IF ret.fn = "none"
              THEN [fn |-> call.fn, applied |-> 1,
                    message |-> cleanMessageContent(call.message)]
              ELSE [fn |-> call.fn, applied |-> ret.applied + 1,
                    message |-> cleanMessageContent(ret.message)]
    /\ UNCHANGED <<settings, isGenerating, abortController, loadingVisible, sess, chat,
                   timers, received, previewOwner, editOwner, toasts, ended,
                   pool, lorebook, triggered, scan, call>>

\* transformMessageToImagePrompt or generateImage is called and runs to its
\* fetch or its throw
ApiCall ==
    /\ call.fn = "apiCall" /\ ret = NoCall
    /\ LET r == ApiCallOutcome(call)
       IN  ret' = [fn |-> call.fn, error |-> r.error,
                   abortController |-> r.abortController, fetches |-> r.fetches]
    /\ UNCHANGED <<settings, isGenerating, abortController, loadingVisible, sess, chat,
                   timers, received, previewOwner, editOwner, toasts, ended,
                   pool, lorebook, triggered, scan, call>>

\* applyPostProcessing is applied to the messages of the call, then to its own
\* result; ret.applied counts the applications
ApplyPostProcessing ==
    /\ call.fn = "applyPostProcessing"
    /\ IF ret.fn = "none" THEN TRUE ELSE ret.applied < MaxApplications
    /\ ret' = IF ret.fn = "none"
              THEN [fn |-> call.fn, applied |-> 1,
                    messages |-> applyPostProcessing(call.messages, call.mode)]
              ELSE [fn |-> call.fn, applied |-> ret.applied + 1,
                    messages |-> applyPostProcessing(ret.messages, call.mode)]
    /\ UNCHANGED <<settings, isGenerating, abortController, loadingVisible, sess, chat,
                   timers, received, previewOwner, editOwner, toasts, ended,
                   pool, lorebook, triggered, scan, call>>

\* ------------------------------------------------------------- specification
SettingsSpace ==
    [enabled : BOOLEAN, mode : {"manual", "auto", "fullAuto"},
     textUrl : BOOLEAN, imageUrl : BOOLEAN,
     manualPromptMode : BOOLEAN, editPromptBeforeSending : BOOLEAN,
     lorebook : BOOLEAN, includeCharacterImage : BOOLEAN,
     model : {"seedream-4.5"}, customModelName : {FALSE}]

\* the settings the two API functions check, with the model selector on a
\* listed model or on 'custom' and the custom model name empty or not
ApiSettingsSpace ==
    [enabled : {TRUE}, mode : {"manual"}, textUrl : BOOLEAN, imageUrl : BOOLEAN,
     manualPromptMode : {FALSE}, editPromptBeforeSending : {FALSE},
     lorebook : BOOLEAN, includeCharacterImage : BOOLEAN,
     model : {"seedream-4.5", "custom"}, customModelName : BOOLEAN]

InitChats == {<<"char", "user">>}

\* defaultSettings, the fields modelled
defaultSettings ==
    [enabled |-> TRUE, mode |-> "manual", textUrl |-> FALSE, imageUrl |-> FALSE,
     manualPromptMode |-> FALSE, editPromptBeforeSending |-> FALSE,
     lorebook |-> FALSE, includeCharacterImage |-> FALSE,
     model |-> "seedream-4.5", customModelName |-> FALSE]

defaultLorebook ==
    [enabled |-> FALSE, includeConstant |-> FALSE,
     maxEntries |-> DefaultMaxEntries, maxTokens |-> DefaultMaxTokens]

NotScanned == [done |-> FALSE, entries |-> <<>>, totalTokens |-> 0]

\* no scan text: an empty chat, the host's matching flags off
NoScan == [text |-> <<>>, caseSensitive |-> FALSE, matchWholeWords |-> FALSE]

\* the coordinator as it is after load, with the default settings
CoordinatorIdle ==
    /\ settings = defaultSettings
    /\ chat \in InitChats
    /\ isGenerating = FALSE
    /\ abortController = 0
    /\ loadingVisible = FALSE
    /\ sess = [s \in Sessions |-> NoSession]
    /\ timers = {}
    /\ received = 0
    /\ previewOwner = 0
    /\ editOwner = 0
    /\ toasts = <<>>
    /\ ended = {}

\* the lorebook selector at rest
SelectorIdle ==
    /\ pool = <<>>
    /\ lorebook = defaultLorebook
    /\ triggered = NotScanned
    /\ scan = NoScan

\* content lengths: a blank, one token, two tokens, more than the default budget
Contents ==
    {[len |-> 1, blank |-> TRUE], [len |-> 4, blank |-> FALSE],
     [len |-> 5, blank |-> FALSE], [len |-> 2001, blank |-> FALSE]}

\* plain keywords and the text they are looked for in
PlainKey(str) == [regex |-> FALSE, text |-> str, i |-> FALSE, valid |-> TRUE]

RegexKey(source, i, valid) == [regex |-> TRUE, text |-> source, i |-> i, valid |-> valid]

PlainScan == [text |-> <<"a">>, caseSensitive |-> FALSE, matchWholeWords |-> FALSE]

\* a pool entry by what decides its place in a result: matches says whether its
\* one key is in the text of PlainScan, useProbability is entry.useProbability
\* with a probability under 100
EntryShapes ==
    [constant : BOOLEAN, disable : BOOLEAN, content : Contents,
     useProbability : BOOLEAN, matches : BOOLEAN]

\* the pools of at most MaxPool entries, uid being the position
Pools ==
    UNION {{[i \in 1..n |-> [uid |-> i, constant |-> f[i].constant,
                             disable |-> f[i].disable, content |-> f[i].content,
                             useProbability |-> f[i].useProbability,
                             key |-> <<PlainKey(IF f[i].matches THEN <<"a">>
                                                ELSE <<"b">>)>>,
                             keysecondary |-> <<>>, selective |-> FALSE,
                             selectiveLogic |-> 0, caseSensitive |-> "null",
                             matchWholeWords |-> "null"]] :
                f \in [1..n -> EntryShapes]} : n \in 0..MaxPool}

\* the pool the sessions scan: one entry whose key is in the text of PlainScan,
\* so that a scan returns it unless the host calls raise
KnowledgePool ==
    <<[uid |-> 1, constant |-> FALSE, disable |-> FALSE,
       content |-> [len |-> 4, blank |-> FALSE], useProbability |-> FALSE,
       key |-> <<PlainKey(<<"a">>)>>, keysecondary |-> <<>>, selective |-> FALSE,
       selectiveLogic |-> 0, caseSensitive |-> "null", matchWholeWords |-> "null"]>>

LorebookSpace ==
    [enabled : BOOLEAN, includeConstant : BOOLEAN,
     maxEntries : 0..MaxBudgetEntries, maxTokens : 0..MaxBudgetTokens]

Init ==
    /\ settings \in SettingsSpace
    /\ chat \in InitChats
    /\ isGenerating = FALSE
    /\ abortController = 0
    /\ loadingVisible = FALSE
    /\ sess = [s \in Sessions |-> NoSession]
    /\ timers = {}
    /\ received = 0
    /\ previewOwner = 0
    /\ editOwner = 0
    /\ toasts = <<>>
    /\ ended = {}
    /\ pool = KnowledgePool
    /\ lorebook = [defaultLorebook EXCEPT !.enabled = settings.lorebook]
    /\ triggered = NotScanned
    /\ scan = PlainScan
    /\ call = NoCall
    /\ ret = NoCall

User ==
    \/ \E i \in 0..(Len(chat) - 1) : ButtonClick(i)
    \/ \E m \in {Undefined} \cup 0..Len(chat) : SlashCommand(m)
    \/ cancelGeneration
    \/ EscapeKey

Host ==
    \/ onMessageReceived
    \/ \E t \in timers : TimerFire(t)

Step(s) ==
    \/ \E rolls \in [1..MaxPool -> BOOLEAN], throws \in BOOLEAN : LorebookDone(s, rolls, throws)
    \/ AvatarDone(s)
    \/ \E r \in {"t", "", "error"} : TextResponse(s, r)
    \/ \E a \in BOOLEAN, p \in {"", "m"} : ManualPromptResolve(s, a, p)
    \/ \E x \in {"", "e"} : EditAccept(s, x)
    \/ EditDiscard(s)
    \/ \E r \in {"url", "data", "error"} : ImageResponse(s, r)
    \/ PreviewAccept(s)
    \/ PreviewDelete(s)
    \/ PreviewRegenerate(s)
    \/ \E ok \in BOOLEAN : SaveFileDone(s, ok)
    \/ SaveChatDone(s)

Next == User \/ Host \/ \E s \in Sessions : Step(s)

Spec == Init /\ [][Next]_vars

\* ------ the workflow with the enabled switch and the mode changed under way
\* both URLs are configured; the two popups are switched together, and so are
\* the knowledge scan and the avatar fetch
InitTrigger ==
    /\ Init
    /\ settings.textUrl /\ settings.imageUrl
    /\ settings.manualPromptMode = settings.editPromptBeforeSending
    /\ settings.lorebook = settings.includeCharacterImage

Configure ==
    \/ \E checked \in BOOLEAN : SetEnabled(checked)
    \/ \E val \in {"manual", "auto", "fullAuto"} : SetMode(val)

NextTrigger == Next \/ Configure

SpecTrigger == InitTrigger /\ [][NextTrigger]_vars

\* the scan on its own: any pool, any budget, no generation under way
InitSelector ==
    /\ pool \in Pools
    /\ lorebook \in LorebookSpace
    /\ triggered = NotScanned
    /\ scan = PlainScan
    /\ call = NoCall
    /\ ret = NoCall
    /\ CoordinatorIdle

NextSelector ==
    \E rolls \in [1..MaxPool -> BOOLEAN], throws \in BOOLEAN : scanLorebook(rolls, throws)

SpecSelector == InitSelector /\ [][NextSelector]_vars

\* the keywords and texts of the matching specification: keys that are a word of
\* one text and part of a word of the other, in the case of the text or not, and
\* a regular expression without the flag i
MatchKeys == {PlainKey(<<"a">>), PlainKey(<<"B">>)}

SecondaryKeys == {PlainKey(<<"b">>), RegexKey(<<"A">>, FALSE, TRUE)}

MaxKeys == 2

KeyLists(keys) == UNION {[1..n -> keys] : n \in 0..MaxKeys}

ScanTexts == {<<"a", "b">>, <<"A", " ", "b">>}

\* what can keep an entry out of a result besides its keys
MatchShapes ==
    {[constant |-> c, disable |-> d, content |-> [len |-> 4, blank |-> b],
      useProbability |-> u] :
        <<c, d, b, u>> \in {<<FALSE, FALSE, FALSE, FALSE>>, <<TRUE, FALSE, FALSE, FALSE>>,
                            <<FALSE, TRUE, FALSE, FALSE>>, <<FALSE, FALSE, TRUE, FALSE>>,
                            <<FALSE, FALSE, FALSE, TRUE>>}}

MatchEntries ==
    {[uid |-> 1, constant |-> f.constant, disable |-> f.disable, content |-> f.content,
      useProbability |-> f.useProbability, key |-> k, keysecondary |-> k2,
      selective |-> sel, selectiveLogic |-> logic, caseSensitive |-> cs,
      matchWholeWords |-> ww] :
        f \in MatchShapes, k \in KeyLists(MatchKeys), k2 \in KeyLists(SecondaryKeys),
        sel \in BOOLEAN, logic \in 0..3, cs \in {"null", "true", "false"},
        ww \in {"null", "true"}}

\* one entry in the pool, the budgets at their defaults
InitMatching ==
    /\ pool \in {<<e>> : e \in MatchEntries}
    /\ lorebook \in [enabled : {TRUE}, includeConstant : BOOLEAN,
                     maxEntries : {0}, maxTokens : {0}]
    /\ triggered = NotScanned
    /\ scan \in [text : ScanTexts, caseSensitive : BOOLEAN, matchWholeWords : BOOLEAN]
    /\ call = NoCall
    /\ ret = NoCall
    /\ CoordinatorIdle

SpecMatching == InitMatching /\ [][NextSelector]_vars

\* ------ message assembly and post-processing on their own
Roles == {"system", "user", "assistant"}

SeqsUpTo(n, S) == UNION {[1..k -> S] : k \in 0..n}

\* the texts of a sequence of pieces, one after the other
RECURSIVE Concat(_)
Concat(pieces) == IF pieces = <<>> THEN <<>> ELSE Head(pieces) \o Concat(Tail(pieces))

\* a roleplay message is made of text, blanks and the tags of an element
MessagePieces == {<<"x">>, <<" ">>, <<"<", "b", ">">>, <<"<", "/", "b", ">">>}

Messages == {Concat(p) : p \in SeqsUpTo(MaxMessageLen, MessagePieces)}

\* settings.textLlm.uploadedPreset: null, a preset without prompts, or prompts
\* of any roles
UploadedPresets ==
    {[stored |-> FALSE, hasPrompts |-> FALSE, prompts |-> <<>>],
     [stored |-> TRUE, hasPrompts |-> FALSE, prompts |-> <<>>]}
    \cup {[stored |-> TRUE, hasPrompts |-> TRUE,
           prompts |-> [i \in 1..Len(r) |->
                           [role |-> r[i], content |-> <<IF i = 1 THEN "p1" ELSE "p2">>]]] :
              r \in SeqsUpTo(MaxPrompts, Roles)}

TextLlmSpace ==
    [usePreset : BOOLEAN, uploadedPreset : UploadedPresets, usePrefill : BOOLEAN,
     prefillContent : {<<>>, <<"prefill">>}, postProcessing : {"", "semi-strict", "strict"}]

\* the character card and the persona are switched together
InitAssemble ==
    /\ call \in {[fn |-> "transformMessageToImagePrompt", message |-> m, textLlm |-> tl,
                  includeCharacterCard |-> card, characterData |-> TRUE,
                  includeUserPersona |-> card, personaData |-> TRUE,
                  includeCharacterImage |-> img, lorebookContent |-> lb] :
                    m \in Messages, tl \in TextLlmSpace,
                    card \in BOOLEAN, img \in BOOLEAN, lb \in {<<>>, <<1>>}}
    /\ ret = NoCall
    /\ CoordinatorIdle
    /\ SelectorIdle

NextAssemble ==
    \E throws \in [1..MaxPrompts -> BOOLEAN], charAvatarData \in BOOLEAN :
        BuildRequest(throws, charAvatarData)

SpecAssemble == InitAssemble /\ [][NextAssemble]_vars

InitPostProcessing ==
    /\ call \in [fn : {"applyPostProcessing"},
                 messages : SeqsUpTo(MaxMessages, [role : Roles, content : {<<"c1">>, <<"c2">>}]),
                 mode : {"none", "semi-strict", "strict"}]
    /\ ret = NoCall
    /\ CoordinatorIdle
    /\ SelectorIdle

SpecPostProcessing == InitPostProcessing /\ [][ApplyPostProcessing]_vars

\* ------ the extraction of the prompt on its own
\* the responses: with or without the data envelope, with or without a first
\* choice, each source absent, empty or filled
PartsSpace ==
    {<<>>, <<[thought |-> TRUE, text |-> <<"th">>]>>,
     <<[thought |-> TRUE, text |-> <<"th">>], [thought |-> FALSE, text |-> <<"p1">>],
       [thought |-> FALSE, text |-> <<>>], [thought |-> FALSE, text |-> <<"p2", " ">>]>>}

TextResponses ==
    [envelope : BOOLEAN, hasMessage : BOOLEAN,
     message : [content : {Absent, Str(<<>>), Str(<<" ", "c", " ">>), Other},
                reasoning_content : {Absent, Str(<<>>), Str(<<"r">>), Other},
                text : {Absent, Str(<<>>), Str(<<"t">>)},
                refusal : {Absent, Str(<<"no">>)}],
     responseContent : [present : BOOLEAN, parts : PartsSpace]]

InitExtract ==
    /\ call \in [fn : {"extractPrompt"}, data : TextResponses]
    /\ ret = NoCall
    /\ CoordinatorIdle
    /\ SelectorIdle

SpecExtract == InitExtract /\ [][ReadTextResponse]_vars

\* ------ the normalizer of the image response on its own
\* a URL, a URL of an image file, base64 short and long, data URLs, a markdown
\* image, prose with a URL
Url == <<"https://", "x">>

ImageUrl == <<"https://", "x.png">>

Base64 == <<"QUJD">>

DataUrl == <<PngPrefix, "QUJD">>

ChoiceContents ==
    {Absent, Other, Str(Url), Str(DataUrl), Str(<<"![](", "https://", "x", ")">>),
     Str(<<"see", " ">> \o ImageUrl), Str(<<"see", " ">> \o Url), Str(<<"blob100">>),
     Str(Base64)}

\* data[0], when there is one
ArrayItems ==
    {[present |-> FALSE, url |-> Absent, b64_json |-> Absent]}
    \cup [present : {TRUE}, url : {Absent, Str(Url), Str(Base64)},
          b64_json : {Absent, Str(Base64)}]

JsonObjects ==
    [content : ChoiceContents, delta : {Absent, Str(Url)}, data0 : ArrayItems,
     url : {Absent, Str(Url), Str(Base64)}, image_url : {Absent, Str(Url)},
     output : {Absent, Str(Url), Other}, b64_json : {Absent, Str(Base64)},
     image : {Absent, Str(Base64), Str(DataUrl), Str(<<"data:text/plain,", "hi">>)},
     base64 : {Absent, Str(Base64)}]

JsonLine(prefix, data) == [prefix |-> prefix, payload |-> [kind |-> "json", json |-> data]]

TextLine(prefix, str) == [prefix |-> prefix, payload |-> [kind |-> "text", text |-> str]]

BrokenLine(prefix) == [prefix |-> prefix, payload |-> [kind |-> "brokenJson"]]

\* bodies that are not JSON
RawBodies ==
    {<<TextLine("", str)>> :
        str \in {Url, Url \o <<" ">>, <<" ">> \o Url, DataUrl, Base64, <<"blob100">>,
                 <<"see", " ">> \o Url}}
    \cup {<<TextLine("", Url), TextLine("", <<"see">>)>>, <<BrokenLine("")>>}

InitNormalize ==
    /\ call \in [fn : {"normalizeImageResponse"},
                 lines : {<<JsonLine("", data)>> : data \in JsonObjects} \cup RawBodies]
    /\ ret = NoCall
    /\ CoordinatorIdle
    /\ SelectorIdle

SpecNormalize == InitNormalize /\ [][ReadImageResponse]_vars

\* the payloads of the framed bodies: an object with a URL, one without an image
NoImage ==
    [content |-> Absent, delta |-> Absent,
     data0 |-> [present |-> FALSE, url |-> Absent, b64_json |-> Absent],
     url |-> Absent, image_url |-> Absent, output |-> Absent, b64_json |-> Absent,
     image |-> Absent, base64 |-> Absent]

WithUrl == [NoImage EXCEPT !.url = Str(Url)]

MaxLines == 4

\* the lines of a body: comments, blank lines, data lines with and without the
\* blank after the colon, the end marker of a stream, a line of JSON
SseLines ==
    {TextLine(":keepalive", <<>>), TextLine(": keepalive", <<>>), TextLine("", <<>>),
     JsonLine("data: ", WithUrl), JsonLine("data: ", NoImage), BrokenLine("data: "),
     TextLine("data: ", <<"[DONE]">>), JsonLine("data:", WithUrl), JsonLine("", WithUrl)}

InitSse ==
    /\ call \in [fn : {"normalizeImageResponse"},
                 lines : UNION {[1..n -> SseLines] : n \in 1..MaxLines}]
    /\ ret = NoCall
    /\ CoordinatorIdle
    /\ SelectorIdle

SpecSse == InitSse /\ [][ReadImageResponse]_vars

\* ------ the stored preset on its own
\* no preset, a preset without prompts, and presets of prompts of any role
\* whose content holds a macro or not
StoredPresets ==
    {[stored |-> FALSE, hasPrompts |-> FALSE, prompts |-> <<>>],
     [stored |-> TRUE, hasPrompts |-> FALSE, prompts |-> <<>>]}
    \cup {[stored |-> TRUE, hasPrompts |-> TRUE, prompts |-> p] :
              p \in SeqsUpTo(MaxPrompts, [role : Roles, content : {<<"{{char}}">>, <<"text">>}])}

InitPreset ==
    /\ call \in [fn : {"getUploadedPresetPrompts"}, uploadedPreset : StoredPresets]
    /\ ret = NoCall
    /\ CoordinatorIdle
    /\ SelectorIdle

NextPreset == \E throws \in [1..MaxPrompts -> BOOLEAN] : GetPresetPrompts(throws)

SpecPreset == InitPreset /\ [][NextPreset]_vars

\* ------ the parsing of a preset file on its own
\* a prompt of the file by what the loop tests: one that passes every test, with
\* text or with a content macro alone, and one for each test it can fail
PromptKinds ==
    {[marker |-> FALSE, role |-> "system", content |-> Str(<<"{{// c}}", "text">>)],
     [marker |-> FALSE, role |-> "user", content |-> Str(<<"{{char}}">>)],
     [marker |-> TRUE, role |-> "system", content |-> Str(<<"text">>)],
     [marker |-> FALSE, role |-> "", content |-> Str(<<"text">>)],
     [marker |-> FALSE, role |-> "system", content |-> Absent],
     [marker |-> FALSE, role |-> "system", content |-> Str(<<"{{trim}}", " ", "{{random}}">>)]}

FilePrompts ==
    {[i \in 1..Len(k) |-> [identifier |-> id[i], marker |-> k[i].marker,
                            role |-> k[i].role, content |-> k[i].content]] :
        k \in SeqsUpTo(MaxPrompts, PromptKinds), id \in [1..MaxPrompts -> {"a", "b"}]}

OrderEntries == [enabled : BOOLEAN, identifier : {"", "a", "b"}]

Bucket(id, order) == [character_id |-> id, hasOrder |-> TRUE, order |-> order]

Array(items) == [kind |-> "array", items |-> items]

\* the files parsed: files that are not JSON, lack one of the arrays or the bucket of
\* character_id 100001, and files that hold them, the bucket first or second
InitParse ==
    /\ LET PresetFiles ==
                {[json |-> FALSE, prompts |-> Array(<<>>), prompt_order |-> Array(<<>>)]}
                \cup {[json |-> TRUE, prompts |-> p, prompt_order |-> Array(<<Bucket(100001, <<>>)>>)] :
                          p \in {[kind |-> "absent", items |-> <<>>], [kind |-> "other", items |-> <<>>]}}
                \cup {[json |-> TRUE, prompts |-> Array(p), prompt_order |-> o] :
                          p \in FilePrompts,
                          o \in {[kind |-> "absent", items |-> <<>>], [kind |-> "other", items |-> <<>>],
                                 Array(<<>>), Array(<<Bucket(100000, <<>>)>>),
                                 Array(<<[character_id |-> 100001, hasOrder |-> FALSE, order |-> <<>>]>>)}}
                \cup {[json |-> TRUE, prompts |-> Array(p), prompt_order |-> Array(b)] :
                          p \in FilePrompts,
                          b \in {<<Bucket(100001, o)>> : o \in SeqsUpTo(MaxOrder, OrderEntries)}
                                \cup {<<Bucket(100000, <<[enabled |-> TRUE, identifier |-> "a"]>>),
                                        Bucket(100001, o)>> : o \in SeqsUpTo(MaxOrder, OrderEntries)}}
       IN  call \in [fn : {"parsePresetFile"}, file : PresetFiles]
    /\ ret = NoCall
    /\ CoordinatorIdle
    /\ SelectorIdle

SpecParse == InitParse /\ [][ParsePreset]_vars

\* ------ the cleaning of a message on its own
\* the pieces of the messages cleaned: tags with their name, opened and not
\* closed, and text
CleanPieces ==
    {<<"<", "font">>, <<">">>, <<"<", "b", ">">>, <<"<", "/", "b", ">">>,
     <<"<", "span", ">">>, <<"<", "/", "span", ">">>, <<"<", "/", "font", ">">>,
     <<"x">>, <<"\n", "\n">>}

InitClean ==
    /\ call \in {[fn |-> "cleanMessageContent", message |-> Concat(p)] :
                    p \in SeqsUpTo(MaxPieces, CleanPieces)}
    /\ ret = NoCall
    /\ CoordinatorIdle
    /\ SelectorIdle

SpecClean == InitClean /\ [][CleanMessage]_vars

\* ------ the configuration checks of the API functions on their own
InitApi ==
    /\ call \in [fn : {"apiCall"}, api : {"transformMessageToImagePrompt", "generateImage"},
                 settings : ApiSettingsSpace, prompt : {"", "p"},
                 abortController : {"null", "previous"}]
    /\ ret = NoCall
    /\ CoordinatorIdle
    /\ SelectorIdle

SpecApi == InitApi /\ [][ApiCall]_vars

\* the configurations in which sessions run and the auto-trigger is armed; the
\* knowledge scan and the avatar fetch are switched together
LiveInit ==
    /\ Init
    /\ settings.enabled /\ settings.imageUrl
    /\ settings.mode # "manual"
    /\ settings.lorebook = settings.includeCharacterImage

\* every response arrives, every host call settles and the user answers every
\* popup; a popup whose buttons were taken over by a later one closes on Escape.
\* Each such step moves a session forward, so fairness of their disjunction is
\* enough: it is implied by fairness of each of them.
LiveSpec ==
    /\ LiveInit /\ [][Next]_vars
    /\ WF_vars(EscapeKey \/ \E s \in Sessions : Step(s))

\* ------------------------------------------------------------- properties
\* s starts a network request in this step: the avatar fetch, the text-generation
\* request or the image-generation request
NetRequest(s) ==
    /\ sess'[s].pc \in {"avatar", "awaitText", "awaitImage"}
    /\ sess'[s].pc # sess[s].pc

\* s splices its image message into the chat in this step
Inserts(s) == sess'[s].pc = "saveChat" /\ sess[s].pc # "saveChat"

\* this step is an invocation of generateImageForMessage from the message
\* button, the slash command or the auto-trigger timer
InvokesInteractive ==
    \/ \E i \in 0..(Len(chat) - 1) : ButtonClick(i)
    \/ \E m \in {Undefined} \cup 0..Len(chat) : SlashCommand(m)
    \/ \E t \in timers : t.kind = "interactive" /\ TimerFire(t)

\* the first entry check that the configuration fails, in the code's order
ConfigAdvisory ==
    IF ~settings.enabled THEN "disabled"
    ELSE IF ~settings.textUrl /\ ~settings.manualPromptMode THEN "noTextUrl"
    ELSE "noImageUrl"

\* the position of a suspension point in the order of the phases
PhaseRank(pc) ==
    CASE pc = "none" -> 0
      [] pc \in {"try", "manualPopup", "scan", "avatar"} -> 1
      [] pc = "awaitText" -> 2
      [] pc = "editPopup" -> 3
      [] pc = "awaitImage" -> 4
      [] pc \in {"previewPopup", "awaitInner"} -> 5
      [] pc \in {"saveFile", "saveChat"} -> 6
      [] OTHER -> 7

\* C1: at most one session is between setting the generating flag and the end
\* of its finally block, in every reachable state.
SingleFlight == Cardinality({s \in Sessions : Running(s)}) <= 1

\* C2: once cancelGeneration ran while a session was active, that session starts
\* no further network request and never inserts an image message.
CancelledSessionStops ==
    [][\A s \in Sessions : sess[s].cancelled => ~NetRequest(s) /\ ~Inserts(s)]_vars

\* C3: every session that set the generating flag eventually returns (a session
\* number is used once, so from some point on none is in progress), and in the
\* state where a session has just returned the generating flag is false and the
\* abort handle is null, whatever the way it ended.
SessionTerminatesClean ==
    /\ [](ended # {} => ~isGenerating /\ abortController = 0)
    /\ <>[](\A s \in Sessions : sess[s].pc \in {"none", "done"})

SessionEndedByDiscardedEdit ==
    \E e \in ended : e.outcome = "editDiscarded" /\ e.kind = "interactive"

\* C4: an invocation of generateImageForMessage made while a session is active
\* returns with the 'already running' advisory and changes neither the flag, the
\* abort handle nor any session, so it makes no network request.
RejectedWhileActive ==
    [][(InvokesInteractive /\ \E s \in Sessions : Running(s))
         => /\ toasts' = <<"alreadyRunning">>
            /\ UNCHANGED <<isGenerating, abortController, sess>>]_vars

\* C5: in one session the suspension points follow the order of the phases, the
\* image request is sent only with a prompt, the image message is inserted only
\* after the image request was answered, and a session that failed or was
\* cancelled neither inserts an image message nor ends in success.
PhaseOrder ==
    [][/\ \A s \in Sessions :
            /\ PhaseRank(sess'[s].pc) >= PhaseRank(sess[s].pc)
            /\ (sess'[s].pc = "awaitImage" /\ sess[s].pc # "awaitImage")
                   => sess'[s].prompt # ""
            /\ Inserts(s) => sess[s].pc \in {"awaitImage", "previewPopup", "saveFile"}
            /\ sess[s].cancelled => ~Inserts(s)
       /\ \A e \in ended' : e.outcome = "success" => ~e.cancelled /\ e.errors = 0]_vars

FullAutoNeverAsks ==
    /\ [](\A s \in Sessions : sess[s].kind = "fullAuto" =>
              sess[s].pc \notin PopupPcs /\ previewOwner # s /\ editOwner # s)
    /\ [][\A s \in Sessions : sess[s].kind = "fullAuto" =>
            /\ (\E r \in {"url", "data"} : ImageResponse(s, r))
                   => sess'[s].pc \in {"saveFile", "saveChat"}
            /\ (sess[s].pc = "saveFile" /\ sess'[s].pc # "saveFile")
                   => Inserts(s)
            /\ Inserts(s) => Len(chat') = Len(chat) + 1]_vars

FullAutoInsertsWithPopupsConfigured ==
    \E s \in Sessions :
        /\ sess[s].kind = "fullAuto"
        /\ sess[s].pc = "saveChat"
        /\ settings.editPromptBeforeSending
        /\ settings.manualPromptMode

\* C8 as stated: an invocation with the feature disabled, or without an image
\* URL, or without a text URL (no prompt supplied), is answered by an advisory and
\* starts nothing.
EntryRejectsWithoutTextUrl ==
    [][(/\ InvokesInteractive
        /\ ~settings.enabled \/ ~settings.imageUrl \/ ~settings.textUrl)
         => /\ Len(toasts') = 1
            /\ UNCHANGED <<isGenerating, abortController, sess, loadingVisible>>]_vars

\* C8: an invocation with the feature disabled, or without an image URL, or
\* without a text URL while manualPromptMode is off (no prompt supplied), shows
\* exactly one advisory, the one of the first check that fails, and leaves the
\* flag, the abort handle, the sessions, the overlay, the popups and the chat as
\* they were: no network request, no popup.
EntryRejects ==
    [][(/\ InvokesInteractive
        /\ \/ ~settings.enabled
           \/ ~settings.imageUrl
           \/ ~settings.textUrl /\ ~settings.manualPromptMode)
         => /\ toasts' = <<IF isGenerating THEN "alreadyRunning" ELSE ConfigAdvisory>>
            /\ UNCHANGED <<isGenerating, abortController, sess, loadingVisible,
                           previewOwner, editOwner, chat>>]_vars

RejectedForMissingTextUrl ==
    /\ toasts = <<"noTextUrl">>
    /\ ~settings.textUrl /\ ~settings.manualPromptMode
    /\ \A s \in Sessions : sess[s].pc = "none"

\* C9: in every task the error messages shown are exactly one per session that
\* ended by a failure other than an AbortError; a session ended by an AbortError
\* or in any other way has shown none.
ErrorShownOncePerFailure ==
    /\ Cardinality({i \in 1..Len(toasts) : toasts[i] = "error"})
           = Cardinality({e \in ended : e.outcome = "failed"})
    /\ \A e \in ended : e.errors = IF e.outcome = "failed" THEN 1 ELSE 0

SessionEndedByAbort ==
    \E e \in ended : e.outcome = "aborted" /\ e.cancelled

\* the estimated tokens of the entries of a result
RECURSIVE SumTokens(_)
SumTokens(entries) ==
    IF Len(entries) = 0 THEN 0
    ELSE EntryTokens(entries[1]) + SumTokens(Tail(entries))

EffectiveFlag(override, global) == IF override = "null" THEN global ELSE override = "true"

\* the entry's key k matches the scan text
KeyMatches(e, k) ==
    matchKeyword(k, scan.text, EffectiveFlag(e.caseSensitive, scan.caseSensitive),
                 EffectiveFlag(e.matchWholeWords, scan.matchWholeWords))

\* the secondary keys of e that match satisfy its logic
SecondaryLogicSatisfied(e) ==
    LET n    == Len(e.keysecondary)
        hits == {i \in 1..n : KeyMatches(e, e.keysecondary[i])}
    IN  CASE e.selectiveLogic = 0 -> hits # {}
          [] e.selectiveLogic = 1 -> hits # 1..n
          [] e.selectiveLogic = 2 -> hits = {}
          [] e.selectiveLogic = 3 -> hits = 1..n

Eligible(e, rolls) ==
    /\ ~e.disable
    /\ e.content.len > 0 /\ ~e.content.blank
    /\ \/ e.constant /\ lorebook.includeConstant
       \/ /\ ~e.constant
          /\ e.useProbability => rolls[e.uid]
          /\ \E i \in 1..Len(e.key) : KeyMatches(e, e.key[i])
          /\ (e.selective /\ Len(e.keysecondary) > 0) => SecondaryLogicSatisfied(e)

\* C11: every entry a scan returns is eligible: not disabled, with content, and
\* either constant while includeConstant is on, or not constant, past its
\* probability roll, with an activation key that matches the scan text and, if
\* selective with secondary keys, with secondary matches that satisfy its logic
ReturnedEntriesEligible ==
    [][\A rolls \in [1..MaxPool -> BOOLEAN], throws \in BOOLEAN :
           scanLorebook(rolls, throws) =>
               \A k \in 1..Len(triggered'.entries) :
                   Eligible(pool[triggered'.entries[k].uid], rolls)]_vars

\* a selective entry came back because none of its two secondary keys matched
ReturnedByNotAny ==
    /\ triggered.done /\ Len(triggered.entries) = 1
    /\ pool[1].selective /\ Len(pool[1].keysecondary) = 2 /\ pool[1].selectiveLogic = 2
    /\ pool[1].useProbability

\* C12: in a result the constant entries come before the keyword-triggered ones,
\* and each of the two groups is a subsequence of the pool: its entries are pool
\* entries of that group, in pool order
GroupsInPoolOrder ==
    triggered.done =>
        LET r == triggered.entries
        IN  /\ \A k \in 1..Len(r) :
                   /\ r[k].uid \in 1..Len(pool)
                   /\ pool[r[k].uid].constant = r[k].isConstant
                   /\ pool[r[k].uid].content = r[k].content
            /\ \A i, j \in 1..Len(r) :
                   i < j => /\ r[j].isConstant => r[i].isConstant
                            /\ r[i].isConstant = r[j].isConstant => r[i].uid < r[j].uid

\* the constant entry that is second in the pool came back first
ConstantMovedToFront ==
    /\ triggered.done /\ Len(triggered.entries) = 2
    /\ triggered.entries[1].uid = 2 /\ triggered.entries[1].isConstant
    /\ triggered.entries[2].uid = 1 /\ ~triggered.entries[2].isConstant

\* C13: when the host calls of a scan raise, getTriggeredLorebookEntries returns
\* no entries and zero tokens, and the session goes on: it is not ended, nothing
\* is shown, its text-generation request is sent (after the avatar fetch where
\* there is one) and its system message has no lorebook section
ScanFailureTolerated ==
    [][\A s \in Sessions :
           /\ \A rolls \in [1..MaxPool -> BOOLEAN] :
                  LorebookDone(s, rolls, TRUE) =>
                      /\ getTriggeredLorebookEntries(lorebook, pool, scan, rolls, TRUE)
                             = [entries |-> <<>>, totalTokens |-> 0]
                      /\ ended' = {} /\ toasts' = <<>>
                      /\ sess'[s].pc = IF settings.includeCharacterImage
                                       THEN "avatar" ELSE "awaitText"
                      /\ sess'[s].systemPrompt = <<"instructions">>
           /\ AvatarDone(s) =>
                  /\ sess'[s].pc = "awaitText"
                  /\ sess'[s].systemPrompt = sess[s].systemPrompt]_vars

\* the request of a session whose scan failed is out, after its avatar fetch,
\* without the section the scan would have given it
RequestSentAfterFailedScan ==
    /\ settings.lorebook /\ settings.includeCharacterImage
    /\ sess[1].pc = "awaitText" /\ sess[1].systemPrompt = <<"instructions">>

\* the fragments of the stored preset that go into the messages
StoredFragments ==
    IF call.textLlm.usePreset /\ call.textLlm.uploadedPreset.stored
       /\ call.textLlm.uploadedPreset.hasPrompts
    THEN call.textLlm.uploadedPreset.prompts ELSE <<>>

IsSuffix(s, m) == Len(s) <= Len(m) /\ SubSeq(m, Len(m) - Len(s) + 1, Len(m)) = s

\* C14: the messages built before post-processing are the stored preset
\* fragments in stored order (if usePreset is on and a preset is stored), then
\* one system message, then one user message that ends with the cleaned message,
\* then the assistant prefill iff usePrefill is on and prefillContent is not
\* empty, and nothing else
AssembledInOrder ==
    ret.fn = "transformMessageToImagePrompt" =>
        LET m == ret.messages
            f == StoredFragments
            n == Len(f)
            prefilled == call.textLlm.usePrefill /\ call.textLlm.prefillContent # <<>>
        IN  /\ Len(m) = n + 2 + (IF prefilled THEN 1 ELSE 0)
            /\ \A i \in 1..n :
                   /\ m[i].role = f[i].role
                   /\ m[i].content = IF ret.throws[i] THEN f[i].content
                                     ELSE <<"substituted">> \o f[i].content
            /\ m[n + 1].role = "system" /\ Head(m[n + 1].content) = "instructions"
            /\ m[n + 2].role = "user"
            /\ IsSuffix(<<Instruction>> \o cleanMessageContent(call.message), m[n + 2].content)
            /\ \A k \in 1..Len(m[n + 2].content) : m[n + 2].content[k] \notin {"<", ">"}
            /\ prefilled => m[n + 3] = [role |-> "assistant",
                                        content |-> call.textLlm.prefillContent]

\* two fragments, the system message, a user message whose text lost an element,
\* and the prefill
FragmentsThenSystemUserPrefill ==
    /\ ret.fn = "transformMessageToImagePrompt"
    /\ Len(ret.messages) = 5
    /\ ret.messages[1].role = "assistant" /\ ret.messages[2].role = "user"
    /\ call.message = <<"<", "b", ">", "<", "/", "b", ">">>
    /\ ret.messages[4].content = <<Instruction>>

\* C15: in the modes semi-strict and strict, applying applyPostProcessing to its
\* own result gives that result again, roles and contents
PostProcessingIdempotent ==
    [][(ret.fn # "none" /\ call.mode \in {"semi-strict", "strict"} /\ ApplyPostProcessing)
           => ret'.messages = ret.messages]_vars

\* strict was applied again to a result in which it had turned the second of
\* two system messages into a user message
StrictAppliedTwice ==
    /\ ret.fn = "applyPostProcessing" /\ ret.applied >= 2 /\ call.mode = "strict"
    /\ Len(call.messages) = 3
    /\ call.messages[2].role = "system" /\ call.messages[3].role = "system"
    /\ ret.messages[3].role = "user"

\* the system messages of a sequence before its i-th
EarlierSystem(messages, i) == {j \in 1..(i - 1) : messages[j].role = "system"}

\* C16: applyPostProcessing keeps the length, the order and the contents;
\* semi-strict leaves no system message; strict keeps the first system message
\* of the input as system and makes every later one user; other roles stay;
\* mode none and the empty sequence come back unchanged
PostProcessingShape ==
    (ret.fn = "applyPostProcessing" /\ ret.applied = 1) =>
        LET in  == call.messages
            out == ret.messages
        IN  /\ Len(out) = Len(in)
            /\ \A i \in 1..Len(in) :
                   /\ out[i].content = in[i].content
                   /\ in[i].role # "system" => out[i].role = in[i].role
                   /\ (in[i].role = "system" /\ call.mode = "semi-strict")
                          => out[i].role = "user"
                   /\ (in[i].role = "system" /\ call.mode = "strict")
                          => out[i].role = IF EarlierSystem(in, i) = {} THEN "system"
                                           ELSE "user"
            /\ (call.mode = "none" \/ in = <<>>) => out = in

\* strict kept the first system message, which is not the first message, and
\* made the later one user
StrictKeptFirstSystemOnly ==
    /\ ret.fn = "applyPostProcessing" /\ ret.applied = 1 /\ call.mode = "strict"
    /\ Len(call.messages) = 3
    /\ call.messages[1].role = "assistant"
    /\ call.messages[2].role = "system" /\ call.messages[3].role = "system"
    /\ ret.messages[2].role = "system" /\ ret.messages[3].role = "user"

\* the sources of the prompt in their order, each the text it offers or <<>>
\* when it offers none
PromptSources ==
    LET message == call.data.message
        parts   == SelectSeq(call.data.responseContent.parts, IsTextPart)
    IN  <<message.content.text,
          message.reasoning_content.text,
          IF call.data.responseContent.present
          THEN Join([i \in 1..Len(parts) |-> parts[i].text], "\n\n") ELSE <<>>,
          message.text.text>>

\* the responses whose fields are strings where they are present
WellTyped ==
    /\ call.data.hasMessage
    /\ call.data.message.content.kind # "other"
    /\ call.data.message.reasoning_content.kind # "other"

\* C17: the prompt is the first available of content, reasoning_content, the
\* joined non-thought parts and text, trimmed; when none is available the call
\* fails, with the refusal if there is one and as an empty response otherwise
FirstAvailableSourceWins ==
    (ret.fn = "extractPrompt" /\ WellTyped) =>
        LET available == {k \in 1..4 : PromptSources[k] # <<>>}
        IN  IF available = {}
            THEN /\ ~ret.result.ok
                 /\ ret.result.error = IF call.data.message.refusal.kind = "absent"
                                        THEN "empty content" ELSE "refused"
            ELSE LET first == CHOOSE k \in available : \A j \in available : k <= j
                 IN  /\ ret.result.ok
                     /\ ret.result.value = trim(PromptSources[first])

\* the JSON object of a body that is one line of JSON
BodyJson == call.lines[1].payload.json

IsJsonBody ==
    /\ Len(call.lines) = 1 /\ call.lines[1].payload.kind = "json"
    /\ BodyJson.content.kind # "other"

\* a filled field offers its value, a filled base64 field its PNG data URL
Offer(field) == IF Truthy(field) THEN {field} ELSE {}

OfferPng(field) == IF Truthy(field) THEN {Str(<<PngPrefix>> \o field.text)} ELSE {}

\* what each shape offers for the object d, in the order of precedence; a
\* choice content offers what its own probes find in it
ShapeOffers(d) ==
    <<IF ProbeChoice(d).ok THEN {ProbeChoice(d).value} ELSE {},
      IF d.data0.present THEN Offer(d.data0.url) \cup OfferPng(d.data0.b64_json) ELSE {},
      Offer(d.url) \cup Offer(d.image_url) \cup Offer(d.output),
      OfferPng(d.b64_json) \cup Offer(d.image) \cup OfferPng(d.image) \cup OfferPng(d.base64)>>

IsHttpUrl(v) ==
    /\ v.kind = "string" /\ Len(v.text) > 1 /\ Head(v.text) \in Schemes
    /\ \A i \in 1..Len(v.text) : v.text[i] \notin WhiteSpace

IsImageDataUrl(v) == v.kind = "string" /\ Len(v.text) > 1 /\ Head(v.text) = PngPrefix

\* C19: what the normalizer returns is an http(s) URL or an image data URL
ReturnsUrlOrDataUrl ==
    (ret.fn = "normalizeImageResponse" /\ ret.result.ok) =>
        IsHttpUrl(ret.result.value) \/ IsImageDataUrl(ret.result.value)

\* the data lines of the body
DataLines == {i \in 1..Len(call.lines) : IsDataLine(call.lines[i])}

\* C20: a body with data lines is normalized as the JSON payload of its first
\* data line, whatever comments, blank lines and later data lines it has; a
\* body without framing that is one JSON object is normalized as that object;
\* the body :keepalive, blank, data: {"url": "https://x"}, blank gives https://x
FirstDataLineNormalized ==
    ret.fn = "normalizeImageResponse" =>
        /\ DataLines # {} =>
               LET first == CHOOSE i \in DataLines : \A k \in DataLines : i <= k
               IN  call.lines[first].payload.kind = "json"
                       => ret.result = ProbeJson(call.lines[first].payload.json)
        /\ (\A i \in 1..Len(call.lines) : call.lines[i].prefix = "")
               => \A i \in 1..Len(call.lines) :
                      (/\ call.lines[i].payload.kind = "json"
                       /\ \A k \in 1..Len(call.lines) :
                              k # i => LineText(call.lines[k]) = <<>>)
                          => ret.result = ProbeJson(call.lines[i].payload.json)
        /\ call.lines = <<TextLine(":keepalive", <<>>), TextLine("", <<>>),
                          JsonLine("data: ", WithUrl), TextLine("", <<>>)>>
               => ret.result = Found(Url)

\* the first of two data lines, after a comment, had no image: the call failed
\* although the second one has a URL
LaterDataLineIgnored ==
    /\ ret.fn = "normalizeImageResponse"
    /\ call.lines = <<TextLine(": keepalive", <<>>), JsonLine("data: ", NoImage),
                      TextLine("", <<>>), JsonLine("data: ", WithUrl)>>
    /\ ret.result = NotFound

\* the configuration of the call lacks what the function called requires
Misconfigured(c) ==
    IF c.api = "transformMessageToImagePrompt" THEN ~c.settings.textUrl
    ELSE \/ ~c.settings.imageUrl
         \/ c.prompt = ""
         \/ c.settings.model = "custom" /\ ~c.settings.customModelName

\* C21: transformMessageToImagePrompt without a text-generation URL, and
\* generateImage without an image-generation URL, with an empty prompt or with
\* model 'custom' and no custom model name, throw without a fetch and leave
\* the shared abort handle as it was.
ConfigurationErrorBeforeRequest ==
    (ret # NoCall /\ call.fn = "apiCall" /\ Misconfigured(call)) =>
        /\ ret.error # ""
        /\ ret.fetches = <<>>
        /\ ret.abortController = call.abortController

\* generateImage threw for the empty custom model name alone, with a handle set
CustomModelNameMissing ==
    /\ ret # NoCall /\ call.fn = "apiCall" /\ call.api = "generateImage"
    /\ call.settings.imageUrl /\ call.prompt # ""
    /\ call.settings.model = "custom" /\ ~call.settings.customModelName
    /\ call.abortController = "previous"
    /\ ret.error = "Custom model name is not configured"
    /\ ret.abortController = "previous"

\* C22: cleaning the output of cleanMessageContent gives that output again
CleaningIdempotent ==
    [][(ret.fn # "none" /\ CleanMessage) => ret'.message = ret.message]_vars

\* the file lacks the prompts array, the prompt_order array or the bucket of
\* character_id 100001
LacksRequiredPart(file) ==
    \/ file.prompts.kind # "array"
    \/ file.prompt_order.kind # "array"
    \/ \A i \in 1..Len(file.prompt_order.items) :
           file.prompt_order.items[i].character_id # 100001

\* the prompt an ordering entry references: the one the file gives last for
\* the identifier
Referenced(prompts, entry) ==
    {i \in 1..Len(prompts) :
        /\ entry.identifier # "" /\ prompts[i].identifier = entry.identifier
        /\ \A j \in (i + 1)..Len(prompts) : prompts[j].identifier # entry.identifier}

\* content with text outside directives, or with a content-producing directive
Meaningful(content) ==
    /\ content.kind = "string"
    /\ \E i \in 1..Len(content.text) :
           content.text[i] \notin UtilityTokens \cup WhiteSpace
           /\ (content.text[i] \in MacroTokens => content.text[i] \in ContentMacros)

\* the entries of the order that are enabled and reference a prompt that is no
\* marker and has a role and meaningful content, by position
Qualifying(prompts, order) ==
    {k \in 1..Len(order) :
        /\ order[k].enabled
        /\ \E i \in Referenced(prompts, order[k]) :
               /\ ~prompts[i].marker
               /\ prompts[i].role # "" /\ Truthy(prompts[i].content)
               /\ Meaningful(prompts[i].content)}

\* the bucket of character_id 100001 the parser reads
CustomOrder(file) ==
    file.prompt_order.items[CHOOSE i \in 1..Len(file.prompt_order.items) :
        /\ file.prompt_order.items[i].character_id = 100001
        /\ \A j \in 1..(i - 1) : file.prompt_order.items[j].character_id # 100001].order

\* C23: parsePresetFile rejects a file without the prompts array, the
\* prompt_order array or the bucket of character_id 100001; the prompts of an
\* accepted file are, in the sequence of the ordering entries, one per entry
\* that is enabled and references a prompt that is no marker and has a role
\* and meaningful content, so no entry with enabled=false gives one
ParsedPromptsAreEnabledEntries ==
    ret.fn = "parsePresetFile" =>
        /\ LacksRequiredPart(call.file) => ~ret.result.ok
        /\ ret.result.ok =>
               LET prompts == call.file.prompts.items
                   order   == CustomOrder(call.file)
                   keep    == Qualifying(prompts, order)
                   out     == ret.result.prompts
               IN  /\ Len(out) = Cardinality(keep)
                   /\ \A k \in keep :
                          LET n == Cardinality({j \in keep : j <= k})
                          IN  \E i \in Referenced(prompts, order[k]) :
                                 out[n] = [identifier |-> prompts[i].identifier,
                                           role |-> prompts[i].role,
                                           content |-> prompts[i].content]

\* a file accepted with its prompts in the order of the bucket, not of the
\* prompts array, and without the disabled entry between them
DisabledEntryOmitted ==
    /\ ret.fn = "parsePresetFile" /\ ret.result.ok
    /\ Len(call.file.prompt_order.items) = 2
    /\ LET order == CustomOrder(call.file)
       IN  /\ Len(order) = 3
           /\ order[1] = [enabled |-> TRUE, identifier |-> "b"]
           /\ order[2] = [enabled |-> FALSE, identifier |-> "a"]
           /\ order[3] = [enabled |-> TRUE, identifier |-> "a"]
    /\ Len(call.file.prompts.items) = 2
    /\ call.file.prompts.items[1].identifier = "a"
    /\ Len(ret.result.prompts) = 2
    /\ ret.result.prompts[1].identifier = "b"
    /\ ret.result.prompts[2].identifier = "a"

\* C24: getUploadedPresetPrompts returns one pair per stored fragment, in
\* stored order and with the stored roles; a fragment whose substitution
\* raised keeps its stored content and every other one has its content
\* substituted
OnePairPerFragment ==
    (ret.fn = "getUploadedPresetPrompts" /\ call.uploadedPreset.stored
     /\ call.uploadedPreset.hasPrompts) =>
        LET f == call.uploadedPreset.prompts
        IN  /\ Len(ret.prompts) = Len(f)
            /\ \A i \in 1..Len(f) :
                   /\ ret.prompts[i].role = f[i].role
                   /\ ret.throws[i] => ret.prompts[i].content = f[i].content
                   /\ ~ret.throws[i] =>
                          /\ ret.prompts[i].content # f[i].content
                          /\ ret.prompts[i].content = <<"substituted">> \o f[i].content

\* the substitution raised for the first of two fragments only
FirstFragmentKeptUnsubstituted ==
    /\ ret.fn = "getUploadedPresetPrompts"
    /\ Len(call.uploadedPreset.prompts) = 2
    /\ ret.throws[1] /\ ~ret.throws[2]
    /\ Len(ret.prompts) = 2
    /\ ret.prompts[1] = [role |-> "assistant", content |-> <<"{{char}}">>]
    /\ ret.prompts[2] = [role |-> "system", content |-> <<"substituted", "text">>]

\* an invocation gets past the entry checks in this step
Starts(s) == sess[s].pc = "none" /\ sess'[s].pc # "none"

\* this step is a click on a message button, the slash command or the
\* regenerate button of a preview
UserStarts ==
    \/ \E i \in 0..(Len(chat) - 1) : ButtonClick(i)
    \/ \E m \in {Undefined} \cup 0..Len(chat) : SlashCommand(m)
    \/ \E s \in Sessions : PreviewRegenerate(s)

\* C25: a received message schedules a generation only if at that moment the
\* extension is enabled and the mode is auto (the interactive flow) or
\* fullAuto (the silent flow), and never in manual mode; nothing else
\* schedules one, and an invocation that is not a scheduled one comes from the
\* message button, the slash command or the regenerate button.
AutoStartOnlyWhenArmed ==
    [][/\ timers' \ timers # {} =>
           /\ onMessageReceived
           /\ settings.enabled /\ settings.mode # "manual"
           /\ \A t \in timers' \ timers :
                  t.kind = IF settings.mode = "auto" THEN "interactive" ELSE "fullAuto"
       /\ onMessageReceived => \A s \in Sessions : ~Starts(s)
       /\ (\E s \in Sessions : Starts(s)) =>
              \/ UserStarts
              \/ \E t \in timers : TimerFire(t) /\ \A s \in Sessions :
                                        Starts(s) => sess'[s].kind = t.kind \/ sess'[s].pc = "done"
      ]_vars

\* the silent flow runs in manual mode: its message was received in fullAuto
\* mode and the mode was changed afterwards
SilentFlowAfterModeChange ==
    /\ settings.mode = "manual" /\ received = 1
    /\ \E s \in Sessions : sess[s].kind = "fullAuto" /\ sess[s].pc = "awaitImage"

\* pool entry i has its turn before pool entry j: the constant entries come
\* first, and within a group the scan follows the pool
TurnBefore(i, j) ==
    \/ pool[i].constant /\ ~pool[j].constant
    \/ pool[i].constant = pool[j].constant /\ i < j

\* the positions in the pool of the entries of a result
Uids(entries) == {entries[k].uid : k \in 1..Len(entries)}

\* C26 as stated: once an eligible entry has been left out of the result, no
\* entry that has its turn later is in the result.
NothingAfterEntryLeftOut ==
    [][\A rolls \in [1..MaxPool -> BOOLEAN], throws \in BOOLEAN :
           (scanLorebook(rolls, throws) /\ ~throws /\ lorebook.enabled) =>
               \A i, j \in 1..Len(pool) :
                   (Eligible(pool[i], rolls) /\ i \notin Uids(triggered'.entries)
                    /\ TurnBefore(i, j)) => j \notin Uids(triggered'.entries)]_vars

\* the budgets a scan works with: 0 stands for the default
EffectiveMaxEntries ==
    IF lorebook.maxEntries = 0 THEN DefaultMaxEntries ELSE lorebook.maxEntries

EffectiveMaxTokens ==
    IF lorebook.maxTokens = 0 THEN DefaultMaxTokens ELSE lorebook.maxTokens

\* C26: no entry is appended once the result holds maxEntries entries or its
\* estimated total has reached maxTokens; an eligible entry is left out only
\* if at its turn a budget was exhausted in that way or its own estimate
\* exceeded what was left of maxTokens, and in the latter case the scan goes on
\* with the entries after it.
AppendedUntilExhausted ==
    [][\A rolls \in [1..MaxPool -> BOOLEAN], throws \in BOOLEAN :
           (scanLorebook(rolls, throws) /\ ~throws /\ lorebook.enabled) =>
               LET r == triggered'.entries
                   \* the entries appended before pool entry i had its turn
                   Prior(i) == SelectSeq(r, LAMBDA x : TurnBefore(x.uid, i))
               IN  /\ \A k \in 1..Len(r) :
                          /\ k - 1 < EffectiveMaxEntries
                          /\ SumTokens(SubSeq(r, 1, k - 1)) < EffectiveMaxTokens
                   /\ \A i \in 1..Len(pool) :
                          (Eligible(pool[i], rolls) /\ i \notin Uids(r)) =>
                              \/ Len(Prior(i)) >= EffectiveMaxEntries
                              \/ SumTokens(Prior(i)) >= EffectiveMaxTokens
                              \/ SumTokens(Prior(i)) + EntryTokens(pool[i])
                                     > EffectiveMaxTokens]_vars

\* the first of two matching entries was left out for its size, with room for
\* one token, and the second, smaller one was appended
SmallerEntryAppendedAfterMisfit ==
    /\ triggered.done
    /\ lorebook.enabled /\ lorebook.maxEntries = 2 /\ lorebook.maxTokens = 1
    /\ Len(pool) = 2
    /\ \A i \in 1..2 : /\ ~pool[i].constant /\ ~pool[i].disable
                       /\ pool[i].key = <<PlainKey(<<"a">>)>>
                       /\ ~pool[i].useProbability
    /\ pool[1].content.len = 5 /\ pool[2].content.len = 4
    /\ Len(triggered.entries) = 1
    /\ triggered.entries[1].uid = 2

\* C27: in the messages transformMessageToImagePrompt sends in strict mode, no
\* system message follows a user or assistant message
SystemOnlyAtStart ==
    (ret.fn = "transformMessageToImagePrompt" /\ call.textLlm.postProcessing = "strict") =>
        LET m == ret.processedMessages
        IN  \A i, j \in 1..Len(m) :
                (i < j /\ m[j].role = "system") => m[i].role = "system"

\* C28: a session changes the chat only when its image is accepted (by the
\* accept button, or without asking in full-auto), and then by inserting exactly
\* one image message immediately after the message whose text produced the prompt,
\* which getCharacterMessage never lets be a user message; every other message and
\* their order stay; a session that ends in any other way leaves the chat as it is.
ImageInsertedAfterTarget ==
    [][/\ chat' # chat =>
            \/ received' # received /\ chat' = Append(chat, "char")
            \/ \E s \in Sessions : Inserts(s)
       /\ \A s \in Sessions :
            Inserts(s) =>
                LET i == sess[s].idx
                IN  /\ \/ sess[s].pc \in {"previewPopup", "saveFile"}
                       \/ sess[s].pc = "awaitImage" /\ sess[s].kind = "fullAuto"
                    /\ i >= 0 /\ i < Len(chat) /\ ~IsUser(chat[i + 1])
                    /\ Len(chat') = Len(chat) + 1
                    /\ chat'[i + 2] = "image"
                    /\ SubSeq(chat', 1, i + 1) = SubSeq(chat, 1, i + 1)
                    /\ SubSeq(chat', i + 3, Len(chat')) = SubSeq(chat, i + 2, Len(chat))
      ]_vars

\* C29: the message a session takes as its target, whether it asked for the
\* latest one or gave an index, is a character message: never a user message
\* and never a generated-image message.
TargetIsCharacterMessage ==
    [][\A s \in Sessions :
          sess[s].idx = Undefined /\ sess'[s].idx # Undefined =>
              /\ ~IsUser(chat'[sess'[s].idx + 1])
              /\ ~IsSystem(chat'[sess'[s].idx + 1])]_vars

\* C30: the image-generation request in flight never carries an empty prompt,
\* whatever the text-generation endpoint returned and whatever was accepted in
\* the manual-prompt or edit-prompt popup: a session whose prompt is empty ends
\* before the request.
NoImageRequestWithEmptyPrompt ==
    \A s \in Sessions : sess[s].pc = "awaitImage" => sess[s].prompt # ""

\* the endpoint returned an empty prompt, the edit popup was accepted with an
\* empty text, and the session ended with the error of generateImage
EmptyPromptAcceptedInEditPopup ==
    \E e \in ended : e.pc = "editPopup" /\ e.outcome = "failed" /\ e.errors = 1
====
